---- MODULE Spec2Model ----
(***************************************************************************)
(* A model of the SAILAR module toolchain core (davnavr/Registir):         *)
(*   - the validating code block builder  (sailar/src/block.rs)            *)
(*   - module construction, writer, parser (sailar/src/module/*.rs)        *)
(*   - the record loader and its lazy cells (sailar_load/src/*.rs)         *)
(*   - the resolving loader                (sailar_get/src/loader/mod.rs)  *)
(*   - the pool of byte buffers            (sailar/src/binary/buffer.rs)   *)
(*   - lengths and identifiers on the wire (writer.rs, parser.rs)          *)
(* Each part has its own next-state relation and specification; the        *)
(* variables of the other parts stay as Init leaves them.                  *)
(***************************************************************************)
EXTENDS Integers, Sequences, FiniteSets, TLC

(***************************************************************************)
(* Bounds of the model.                                                    *)
(***************************************************************************)
MaxInstructions == 1

MaxValues == 2

MaxTemporaries == 2

MaxResolverCalls == 3

\* sailar_load: records in a source, and instantiations made of its functions.
MaxRecords == 2

MaxInstantiations == 1

\* binary::buffer: buffers rented from a pool at one time, and the bytes
\* pushed onto a rented buffer.
MaxRented == 2

MaxLength == 2

\* builder::block: the blocks of a code definition, the instructions emitted
\* to one block before it is built, and the registers one block allocates.
MaxBlocks == 2

MaxBlockInstructions == 2

MaxBlockRegisters == 1

\* getmdl::loader: the type and method definitions of a loaded module.
MaxDefinedTypes == 2

MaxDefinedMethods == 2

(***************************************************************************)
(* General helpers.                                                        *)
(***************************************************************************)
Range(s) == {s[i] : i \in 1..Len(s)}

Min(a, b) == IF a < b THEN a ELSE b

SeqsUpTo(S, n) == UNION {[1..k -> S] : k \in 0..n}

(***************************************************************************)
(* type_system::Any, restricted to three primitive types: two fixed        *)
(* integers and one real.                                                  *)
(***************************************************************************)
IntegerTypes == {"S32", "U8"}

Types == IntegerTypes \cup {"F32"}

IsInteger(t) == t \in IntegerTypes

\* The result and input type lists builders are created with, and the
\* signatures of the functions they call.
ResultTypeLists == {<<>>, <<"S32">>, <<"F32">>, <<"S32", "U8">>}

InputTypeLists == {<<>>, <<"S32">>, <<"F32", "S32">>}

(***************************************************************************)
(* LengthSize / VarIntSize: One, Two or Four bytes.                        *)
(***************************************************************************)
U8Max == 255

U16Max == 65535

SizeRank(size) == CASE size = "One" -> 1 [] size = "Two" -> 2 [] size = "Four" -> 3

Fit(n) == IF n <= U8Max THEN "One" ELSE IF n <= U16Max THEN "Two" ELSE "Four"

resize_to_fit(size, n) == IF SizeRank(Fit(n)) > SizeRank(size) THEN Fit(n) ELSE size

byte_count(size) == CASE size = "One" -> 1 [] size = "Two" -> 2 [] size = "Four" -> 4

VARIABLES
    \* sailar::block::BuilderCache
    instruction_buffer, value_buffer, input_buffer, temporary_buffer,
    \* the Builder borrowed from the cache, and the outcome of the last call on it
    builder, emitted,
    \* sailar_get Loader: the arena of loaded modules, the lookup by identifier,
    \* every call made to the resolver so far, and the outcome of the last call
    resolved_modules, module_lookup, resolver_log, loaded,
    \* sailar_load: the Module built by from_source, the Definition and
    \* Instantiation objects shared with the caller, how often the resolution
    \* of each lazy cell has run, the outcomes of the last from_source and of
    \* the last access, and the panic that ended the program, if any
    loadedModule, definitions, instantiations, resolutions, sourced, accessed, load_panic,
    \* sailar::module: the Module being built, the iteration order of the hash
    \* maps of this run, the outcomes of the last add_function and of the last
    \* parse, and the panic that ended the program, if any
    sailarModule, key_order, added, parsed, module_panic,
    \* the buffers of the buffer::Pool the caller passes to the module's
    \* operations, the outcome of the last Module::write, and the outcome of
    \* the last raw_contents since the module was created or changed
    module_pool, write_log, contents_log,
    \* binary::buffer: the buffers of a Pool, the Rented buffers not dropped
    \* yet, and the outcome of the last call on the pool
    pool_buffers, rented, rent_log,
    \* a length or an identifier on its way through the writer's and the
    \* parser's Wrapper: what was written, the bytes, and what was read back
    wire,
    \* a lookup::IndexMap of the writer on its own: the map, the outcome of the last
    \* get_or_insert, and the index each key was given when it was first passed
    index_map, interned, first_index,
    \* sailar::builder::block: the Blocks of one code definition, by block index,
    \* and the outcome of the last call on one of them
    builder_blocks, block_log,
    \* getmdl::loader: a loaded Module with its by-index caches, and the outcome of
    \* the last load_type_raw or load_method_raw on it
    getmdlModule, raw_loaded

builderVars == <<instruction_buffer, value_buffer, input_buffer, temporary_buffer, builder, emitted>>

loaderVars == <<resolved_modules, module_lookup, resolver_log, loaded>>

loadVars == <<loadedModule, definitions, instantiations, resolutions, sourced, accessed, load_panic>>

moduleVars ==
    <<sailarModule, key_order, added, parsed, module_panic, module_pool, write_log,
      contents_log>>

poolVars == <<pool_buffers, rented, rent_log>>

wireVars == <<wire>>

indexMapVars == <<index_map, interned, first_index>>

blockVars == <<builder_blocks, block_log>>

getmdlVars == <<getmdlModule, raw_loaded>>

vars ==
    <<builderVars, loaderVars, loadVars, moduleVars, poolVars,
      wireVars, indexMapVars, blockVars, getmdlVars>>

notBuilderVars ==
    <<loaderVars, loadVars, moduleVars, poolVars, wireVars,
      indexMapVars, blockVars, getmdlVars>>

notLoaderVars ==
    <<builderVars, loadVars, moduleVars, poolVars, wireVars,
      indexMapVars, blockVars, getmdlVars>>

notLoadVars ==
    <<builderVars, loaderVars, moduleVars, poolVars, wireVars,
      indexMapVars, blockVars, getmdlVars>>

notModuleVars ==
    <<builderVars, loaderVars, loadVars, poolVars, wireVars,
      indexMapVars, blockVars, getmdlVars>>

notPoolVars ==
    <<builderVars, loaderVars, loadVars, moduleVars, wireVars,
      indexMapVars, blockVars, getmdlVars>>

notWireVars ==
    <<builderVars, loaderVars, loadVars, moduleVars, poolVars,
      indexMapVars, blockVars, getmdlVars>>

notIndexMapVars ==
    <<builderVars, loaderVars, loadVars, moduleVars, poolVars,
      wireVars, blockVars, getmdlVars>>

notBlockVars ==
    <<builderVars, loaderVars, loadVars, moduleVars, poolVars,
      wireVars, indexMapVars, getmdlVars>>

notGetmdlVars ==
    <<builderVars, loaderVars, loadVars, moduleVars, poolVars,
      wireVars, indexMapVars, blockVars>>

(***************************************************************************)
(* sailar/src/block.rs: values, registers and instructions.                *)
(***************************************************************************)
\* block::ValidationError; NoError stands for Ok.
NoError ==
    [kind |-> "None", index |-> 0, expected_type |-> "-", actual_type |-> "-",
     expected_count |-> 0, actual_count |-> 0]

EmptyBlock == [NoError EXCEPT !.kind = "EmptyBlock"]

InvalidResultType(index, expected, actual) ==
    [NoError EXCEPT !.kind = "InvalidResultType", !.index = index,
                    !.expected_type = expected, !.actual_type = actual]

ResultCountMismatch(expected, actual) ==
    [NoError EXCEPT !.kind = "ResultCountMismatch", !.expected_count = expected, !.actual_count = actual]

ExpectedType(actual, kind) ==
    [NoError EXCEPT !.kind = "ExpectedType", !.actual_type = actual, !.expected_type = kind]

ArgumentCountMismatch(expected, actual) ==
    [NoError EXCEPT !.kind = "ArgumentCountMismatch", !.expected_count = expected, !.actual_count = actual]

ArgumentTypeMismatch(expected, actual, index) ==
    [NoError EXCEPT !.kind = "ArgumentTypeMismatch", !.index = index,
                    !.expected_type = expected, !.actual_type = actual]

\* block::Block; NoBlock stands for "no block was returned".
NoBlock ==
    [present |-> FALSE, integer_size |-> "One", input_types |-> <<>>, result_types |-> <<>>,
     temporary_types |-> <<>>, instructions |-> <<>>]

NoBuilder == [active |-> FALSE, integer_size |-> "One", result_types |-> <<>>]

\* block::Value<'r>: a constant, or a reference to a register of the builder.
ConstantValue(t) == [kind |-> "Constant", reg |-> [index |-> 0, value_type |-> t]]

TemporaryValue(r) == [kind |-> "Temporary", reg |-> r]

InputValue(r) == [kind |-> "Input", reg |-> r]

\* The values a caller can hold: constants of any integer type and the
\* registers of the current builder.
Values ==
    {ConstantValue(t) : t \in IntegerTypes}
        \cup {TemporaryValue(r) : r \in Range(temporary_buffer)}
        \cup {InputValue(r) : r \in Range(input_buffer)}

value_type(v) == v.reg.value_type

IndexedRegister(i) == [kind |-> "IndexedRegister", index |-> i, value_type |-> "-"]

to_valueOffByOne(v, input_count) ==
    CASE v.kind = "Constant" -> [kind |-> "Constant", index |-> 0, value_type |-> v.reg.value_type]
      [] v.kind = "Temporary" -> IndexedRegister(v.reg.index + input_count + 1)
      [] v.kind = "Input" -> IndexedRegister(v.reg.index)

to_value(v, input_count) ==
    CASE v.kind = "Constant" -> [kind |-> "Constant", index |-> 0, value_type |-> v.reg.value_type]
      [] v.kind = "Temporary" -> IndexedRegister(v.reg.index + input_count)
      [] v.kind = "Input" -> IndexedRegister(v.reg.index)

convert_value(v) == to_value(v, Len(input_buffer))

Nop == [op |-> "Nop", overflow |-> "-", values |-> <<>>]

Break == [op |-> "Break", overflow |-> "-", values |-> <<>>]

AddI(overflow_behavior, x, y) == [op |-> "AddI", overflow |-> overflow_behavior, values |-> <<x, y>>]

Ret(values) == [op |-> "Ret", overflow |-> "-", values |-> values]

\* Builder::define_temporary: the register appended to the temporaries.
define_temporary(temporaries, t) == Append(temporaries, [index |-> Len(temporaries), value_type |-> t])

\* function::Signature of a callee
Signature(result_types, parameter_types) ==
    [result_types |-> result_types, parameter_types |-> parameter_types]

CalleeSignatures ==
    {Signature(<<>>, <<>>), Signature(<<"S32">>, <<"S32">>),
     Signature(<<"S32">>, <<"S32", "S32">>), Signature(<<"F32", "U8">>, <<"F32">>)}

\* What the last call on a builder was given and what it returned: `types`
\* are the types of the values it was given, in order, and `signature` is
\* what they were checked against (the callee's signature for emit_call,
\* the builder's result types for emit_ret, the result and input types of
\* the new builder for BuilderCache::builder).  `stale` is what a call of
\* BuilderCache::builder found in the buffers of the cache: the numbers of
\* instructions and of temporaries left by the builder before.
Emitted(op, values, signature, error, block) ==
    [op |-> op, types |-> [i \in 1..Len(values) |-> value_type(values[i])],
     signature |-> signature, error |-> error, block |-> block,
     stale |-> [instructions |-> 0, temporaries |-> 0]]

NoCallee == Signature(<<>>, <<>>)

\* Iterator::zip: pairs are produced until either side runs out.
ZipLen(a, b) == Min(Len(a), Len(b))

\* The first position (from 1) at which the zipped value and expected types
\* differ, or 0 when all zipped pairs agree.
FirstMismatch(values, expected) ==
    LET bad == {i \in 1..ZipLen(values, expected) : value_type(values[i]) # expected[i]}
    IN  IF bad = {} THEN 0 ELSE CHOOSE i \in bad : \A j \in bad : i <= j

(***************************************************************************)
(* BuilderCache::builder: clears the four buffers, fills the input         *)
(* registers and hands out a builder borrowing them.                       *)
(***************************************************************************)
BuilderLog(result_types, input_types) ==
    [Emitted("builder", <<>>, Signature(result_types, input_types), NoError, NoBlock)
        EXCEPT !.stale = [instructions |-> Len(instruction_buffer),
                          temporaries |-> Len(temporary_buffer)]]

BuilderCache_builderKeepingTemporaries(result_types, input_types) ==
    /\ instruction_buffer' = <<>>
    /\ value_buffer' = <<>>
    /\ temporary_buffer' = temporary_buffer
    /\ input_buffer' = [i \in 1..Len(input_types) |-> [index |-> i - 1, value_type |-> input_types[i]]]
    /\ builder' = [active |-> TRUE,
                   integer_size |-> resize_to_fit(resize_to_fit("One", Len(input_types)), Len(result_types)),
                   result_types |-> result_types]
    /\ emitted' = BuilderLog(result_types, input_types)

BuilderCache_builder(result_types, input_types) ==
    /\ instruction_buffer' = <<>>
    /\ value_buffer' = <<>>
    /\ temporary_buffer' = <<>>
    /\ input_buffer' = [i \in 1..Len(input_types) |-> [index |-> i - 1, value_type |-> input_types[i]]]
    /\ builder' = [active |-> TRUE,
                   integer_size |-> resize_to_fit(resize_to_fit("One", Len(input_types)), Len(result_types)),
                   result_types |-> result_types]
    /\ emitted' = BuilderLog(result_types, input_types)

\* The builder goes out of scope without emit_ret.
DropBuilder ==
    /\ builder.active
    /\ builder' = NoBuilder
    /\ emitted' = Emitted("drop", <<>>, NoCallee, NoError, NoBlock)
    /\ UNCHANGED <<instruction_buffer, value_buffer, input_buffer, temporary_buffer>>

emit_nop ==
    /\ builder.active
    /\ Len(instruction_buffer) < MaxInstructions
    /\ instruction_buffer' = Append(instruction_buffer, Nop)
    /\ emitted' = Emitted("emit_nop", <<>>, NoCallee, NoError, NoBlock)
    /\ UNCHANGED <<value_buffer, input_buffer, temporary_buffer, builder>>

emit_break ==
    /\ builder.active
    /\ Len(instruction_buffer) < MaxInstructions
    /\ instruction_buffer' = Append(instruction_buffer, Break)
    /\ emitted' = Emitted("emit_break", <<>>, NoCallee, NoError, NoBlock)
    /\ UNCHANGED <<value_buffer, input_buffer, temporary_buffer, builder>>

(***************************************************************************)
(* Builder::integer_arithmetic_instruction and integer_arithmetic_flagged. *)
(***************************************************************************)
integer_arithmetic_errorComparingFirst(x, y) ==
    IF value_type(x) # value_type(y) THEN ExpectedType(value_type(y), value_type(x))
    ELSE IF ~IsInteger(value_type(x)) THEN ExpectedType(value_type(x), "ExpectedInteger")
    ELSE NoError

integer_arithmetic_error(x, y) ==
    IF ~IsInteger(value_type(x)) THEN ExpectedType(value_type(x), "ExpectedInteger")
    ELSE IF value_type(x) # value_type(y) THEN ExpectedType(value_type(y), value_type(x))
    ELSE NoError

integer_arithmetic_instructionDefiningFlagFirst(op, overflow_behavior, x, y, flagged) ==
    LET error == integer_arithmetic_error(x, y)
        result == define_temporary(temporary_buffer, value_type(x))
    IN  /\ builder.active
        /\ Len(instruction_buffer) < MaxInstructions
        /\ emitted' = Emitted(op, <<x, y>>, NoCallee, error, NoBlock)
        /\ IF error # NoError
           THEN /\ temporary_buffer' = IF flagged THEN define_temporary(temporary_buffer, "U8")
                                       ELSE temporary_buffer
                /\ UNCHANGED instruction_buffer
           ELSE /\ instruction_buffer' =
                       Append(instruction_buffer, AddI(overflow_behavior, convert_value(x), convert_value(y)))
                /\ temporary_buffer' = IF flagged THEN define_temporary(result, "U8") ELSE result
        /\ UNCHANGED <<value_buffer, input_buffer, builder>>

integer_arithmetic_instruction(op, overflow_behavior, x, y, flagged) ==
    LET error == integer_arithmetic_error(x, y)
        result == define_temporary(temporary_buffer, value_type(x))
    IN  /\ builder.active
        /\ Len(instruction_buffer) < MaxInstructions
        /\ emitted' = Emitted(op, <<x, y>>, NoCallee, error, NoBlock)
        /\ IF error # NoError
           THEN UNCHANGED <<instruction_buffer, temporary_buffer>>
           ELSE /\ instruction_buffer' =
                       Append(instruction_buffer, AddI(overflow_behavior, convert_value(x), convert_value(y)))
                /\ temporary_buffer' = IF flagged THEN define_temporary(result, "U8") ELSE result
        /\ UNCHANGED <<value_buffer, input_buffer, builder>>

emit_add(x, y) == integer_arithmetic_instruction("emit_add", "Ignore", x, y, FALSE)

emit_add_flagged(x, y) == integer_arithmetic_instruction("emit_add_flagged", "Flag", x, y, TRUE)

emit_add_saturating(x, y) == integer_arithmetic_instruction("emit_add_saturating", "Saturate", x, y, FALSE)

(***************************************************************************)
(* Builder::finish: the block built from the buffers, or EmptyBlock.       *)
(***************************************************************************)
finish(integer_size, result_types, instructions) ==
    IF instructions = <<>>
    THEN [error |-> EmptyBlock, block |-> NoBlock]
    ELSE [error |-> NoError,
          block |-> [present |-> TRUE,
                     integer_size |-> resize_to_fit(integer_size, Len(temporary_buffer)),
                     input_types |-> [i \in 1..Len(input_buffer) |-> input_buffer[i].value_type],
                     result_types |-> result_types,
                     temporary_types |-> [i \in 1..Len(temporary_buffer) |-> temporary_buffer[i].value_type],
                     instructions |-> instructions]]

(***************************************************************************)
(* Builder::emit_ret.  The values are zipped with the result types; each   *)
(* zipped value is checked and pushed to value_buffer, and the count check *)
(* is made on value_buffer afterwards.                                     *)
(***************************************************************************)
\* The values pushed to value_buffer before the loop ends or fails.
emit_ret_pushed(values, result_types) ==
    LET k == FirstMismatch(values, result_types)
        n == IF k # 0 THEN k - 1 ELSE ZipLen(values, result_types)
    IN  [i \in 1..n |-> to_value(values[i], Len(input_buffer))]

emit_ret_error(values, result_types) ==
    LET k == FirstMismatch(values, result_types)
        return_value_count == Len(emit_ret_pushed(values, result_types))
    IN  IF k # 0 THEN InvalidResultType(k - 1, result_types[k], value_type(values[k]))
        ELSE IF return_value_count # Len(result_types)
             THEN ResultCountMismatch(Len(result_types), return_value_count)
             ELSE NoError

emit_ret(values) ==
    LET error == emit_ret_error(values, builder.result_types)
        pushed == emit_ret_pushed(values, builder.result_types)
        instructions == Append(instruction_buffer, Ret(pushed))
        finished == finish(resize_to_fit(builder.integer_size, Len(pushed)), builder.result_types, instructions)
    IN  /\ builder.active
        /\ value_buffer' = pushed
        /\ builder' = NoBuilder
        /\ IF error # NoError
           THEN /\ emitted' = Emitted("emit_ret", values, Signature(builder.result_types, <<>>), error, NoBlock)
                /\ UNCHANGED instruction_buffer
           ELSE /\ instruction_buffer' = instructions
                /\ emitted' = Emitted("emit_ret", values, Signature(builder.result_types, <<>>),
                                       finished.error, finished.block)
        /\ UNCHANGED <<input_buffer, temporary_buffer>>

(***************************************************************************)
(* Builder::emit_call.  The parameter types are zipped with the arguments; *)
(* the count check is made on the arguments collected by the loop.  One    *)
(* temporary is defined per result type of the callee.                     *)
(***************************************************************************)
emit_call_error(parameter_types, arguments) ==
    LET k == FirstMismatch(arguments, parameter_types)
        actual_arguments == ZipLen(parameter_types, arguments)
    IN  IF k # 0 THEN ArgumentTypeMismatch(parameter_types[k], value_type(arguments[k]), k - 1)
        ELSE IF actual_arguments # Len(parameter_types)
             THEN ArgumentCountMismatch(Len(parameter_types), actual_arguments)
             ELSE NoError

RECURSIVE define_temporaries(_, _)
define_temporaries(temporaries, types) ==
    IF types = <<>> THEN temporaries
    ELSE define_temporaries(define_temporary(temporaries, Head(types)), Tail(types))

emit_call(callee, arguments) ==
    LET error == emit_call_error(callee.parameter_types, arguments)
    IN  /\ builder.active
        /\ Len(temporary_buffer) + Len(callee.result_types) <= MaxTemporaries
        /\ emitted' = Emitted("emit_call", arguments, callee, error, NoBlock)
        /\ temporary_buffer' =
               IF error # NoError THEN temporary_buffer
               ELSE define_temporaries(temporary_buffer, callee.result_types)
        /\ UNCHANGED <<instruction_buffer, value_buffer, input_buffer, builder>>

NextBuilder ==
    \/ \E r \in ResultTypeLists, i \in InputTypeLists : BuilderCache_builder(r, i) /\ UNCHANGED notBuilderVars
    \/ DropBuilder /\ UNCHANGED notBuilderVars
    \/ emit_nop /\ UNCHANGED notBuilderVars
    \/ emit_break /\ UNCHANGED notBuilderVars
    \/ \E x \in Values, y \in Values : emit_add(x, y) /\ UNCHANGED notBuilderVars
    \/ \E x \in Values, y \in Values : emit_add_flagged(x, y) /\ UNCHANGED notBuilderVars
    \/ \E x \in Values, y \in Values : emit_add_saturating(x, y) /\ UNCHANGED notBuilderVars
    \/ \E c \in CalleeSignatures, a \in SeqsUpTo(Values, MaxValues) : emit_call(c, a) /\ UNCHANGED notBuilderVars
    \/ \E v \in SeqsUpTo(Values, MaxValues) : emit_ret(v) /\ UNCHANGED notBuilderVars

InitBuilder ==
    /\ instruction_buffer = <<>>
    /\ value_buffer = <<>>
    /\ input_buffer = <<>>
    /\ temporary_buffer = <<>>
    /\ builder = NoBuilder
    /\ emitted = Emitted("new", <<>>, NoCallee, NoError, NoBlock)

(***************************************************************************)
(* sailar_get/src/loader/mod.rs: the loader that resolves modules by       *)
(* identifier.  A module handle (&'a Module<'a>) is the position of the    *)
(* module in the arena resolved_modules; 0 stands for no module.           *)
(***************************************************************************)
ModuleIdentifiers == {"App", "A", "B"}

Symbols == {"main", "helper"}

\* format::Module, reduced to its identifier and the symbols of its functions.
FormatModule(identifier, symbols) == [identifier |-> identifier, symbols |-> symbols]

\* The root applications a loader is initialized with.
Applications == {FormatModule("App", {"main"}), FormatModule("App", {"main", "helper"})}

\* The module a resolver finds under a name, when it finds one.
ResolvedSource(name) ==
    CASE name = "A" -> FormatModule("A", {"helper"})
      [] name = "B" -> FormatModule("B", {"main", "helper"})
      [] OTHER -> FormatModule(name, {"main"})

\* ReferenceResolver::resolve returns Err(error), Ok(None) or Ok(Some(module)).
ResolverOutcomes == {"Error", "None", "Module"}

EmptyLookup == [n \in {} |-> 0]

\* The outcome of the last call on the loader.
Loaded(op, name, symbol, error, module, functions) ==
    [op |-> op, name |-> name, symbol |-> symbol, error |-> error,
     module |-> module, functions |-> functions]

\* Loader::force_load_module: allocates the module in the arena.
force_load_module(arena, module) == Append(arena, module)

\* The hash map entry load_module finds for a name.
module_lookup_entryAlwaysVacant(name) == "Vacant"

module_lookup_entry(name) == IF name \in DOMAIN module_lookup THEN "Occupied" ELSE "Vacant"

\* Loader::initialize: a loader holding only the application.
Loader_initialize(application) ==
    /\ resolved_modules = <<>>
    /\ resolved_modules' = force_load_module(<<>>, application)
    /\ module_lookup' = EmptyLookup
    /\ resolver_log' = <<>>
    /\ loaded' = Loaded("initialize", application.identifier, "-", "None", 1, {})

load_moduleKeepingVacantEntry(name, outcome) ==
    /\ resolved_modules # <<>>
    /\ IF module_lookup_entry(name) = "Occupied"
       THEN /\ loaded' = Loaded("load_module", name, "-", "None", module_lookup[name], {})
            /\ UNCHANGED <<resolved_modules, module_lookup, resolver_log>>
       ELSE /\ Len(resolver_log) < MaxResolverCalls
            /\ resolver_log' = Append(resolver_log, <<name, outcome>>)
            /\ CASE outcome = "Error" ->
                      /\ loaded' = Loaded("load_module", name, "-", "ResolverError", 0, {})
                      /\ UNCHANGED <<resolved_modules, module_lookup>>
                 [] outcome = "None" ->
                      /\ loaded' = Loaded("load_module", name, "-", "ModuleNotFound", 0, {})
                      /\ module_lookup' =
                             [n \in DOMAIN module_lookup \cup {name} |->
                                 IF n = name THEN 1 ELSE module_lookup[n]]
                      /\ UNCHANGED resolved_modules
                 [] outcome = "Module" ->
                      /\ resolved_modules' = force_load_module(resolved_modules, ResolvedSource(name))
                      /\ module_lookup' =
                             [n \in DOMAIN module_lookup \cup {name} |->
                                 IF n = name THEN Len(resolved_modules) + 1 ELSE module_lookup[n]]
                      /\ loaded' = Loaded("load_module", name, "-", "None", Len(resolved_modules) + 1, {})

\* Loader::load_module; `outcome` is what the resolver answers if it is asked.
load_module(name, outcome) ==
    /\ resolved_modules # <<>>
    /\ IF module_lookup_entry(name) = "Occupied"
       THEN /\ loaded' = Loaded("load_module", name, "-", "None", module_lookup[name], {})
            /\ UNCHANGED <<resolved_modules, module_lookup, resolver_log>>
       ELSE /\ Len(resolver_log) < MaxResolverCalls
            /\ resolver_log' = Append(resolver_log, <<name, outcome>>)
            /\ CASE outcome = "Error" ->
                      /\ loaded' = Loaded("load_module", name, "-", "ResolverError", 0, {})
                      /\ UNCHANGED <<resolved_modules, module_lookup>>
                 [] outcome = "None" ->
                      /\ loaded' = Loaded("load_module", name, "-", "ModuleNotFound", 0, {})
                      /\ UNCHANGED <<resolved_modules, module_lookup>>
                 [] outcome = "Module" ->
                      /\ resolved_modules' = force_load_module(resolved_modules, ResolvedSource(name))
                      /\ module_lookup' =
                             [n \in DOMAIN module_lookup \cup {name} |->
                                 IF n = name THEN Len(resolved_modules) + 1 ELSE module_lookup[n]]
                      /\ loaded' = Loaded("load_module", name, "-", "None", Len(resolved_modules) + 1, {})

\* Loader::lookup_module
lookup_module(name) ==
    /\ resolved_modules # <<>>
    /\ loaded' = Loaded("lookup_module", name, "-", "None",
                        IF name \in DOMAIN module_lookup THEN module_lookup[name] ELSE 0, {})
    /\ UNCHANGED <<resolved_modules, module_lookup, resolver_log>>

\* Module::lookup_function: the function of a module with the given symbol.
Module_lookup_function(handle, symbol) ==
    IF symbol \in resolved_modules[handle].symbols THEN {<<handle, symbol>>} ELSE {}

\* Loader::lookup_function: the matches among the values of module_lookup.
lookup_function_result(symbol) ==
    UNION {Module_lookup_function(module_lookup[n], symbol) : n \in DOMAIN module_lookup}

lookup_function(symbol) ==
    /\ resolved_modules # <<>>
    /\ loaded' = Loaded("lookup_function", "-", symbol, "None", 0, lookup_function_result(symbol))
    /\ UNCHANGED <<resolved_modules, module_lookup, resolver_log>>

NextLoader ==
    \/ \E application \in Applications : Loader_initialize(application) /\ UNCHANGED notLoaderVars
    \/ \E n \in ModuleIdentifiers, o \in ResolverOutcomes : load_module(n, o) /\ UNCHANGED notLoaderVars
    \/ \E n \in ModuleIdentifiers : lookup_module(n) /\ UNCHANGED notLoaderVars
    \/ \E s \in Symbols : lookup_function(s) /\ UNCHANGED notLoaderVars

\* No loader has been initialized yet (the caller's Option<Loader> is None).
InitLoader ==
    /\ resolved_modules = <<>>
    /\ module_lookup = EmptyLookup
    /\ resolver_log = <<>>
    /\ loaded = Loaded("none", "-", "-", "None", 0, {})

(***************************************************************************)
(* sailar_load: modules built from a source of records, and the lazy cells *)
(* of their definitions and instantiations.                                *)
(***************************************************************************)
\* sailar::record::Record, with the fields of a FunctionDefinition record.
Record(tag, export, symbol, body, code, signature) ==
    [tag |-> tag, export |-> export, symbol |-> symbol, body |-> body,
     code |-> code, signature |-> signature]

FunctionDefinitionRecords ==
    {Record("FunctionDefinition", "Export", "main", "Definition", 0, 0),
     Record("FunctionDefinition", "Export", "main", "Foreign", 0, 1),
     Record("FunctionDefinition", "Private", "helper", "Definition", 1, 0),
     Record("FunctionDefinition", "Hidden", "-", "Definition", 0, 0)}

Records ==
    FunctionDefinitionRecords \cup
        {Record("MetadataField", "-", "-", "-", 0, 0),
         Record("Identifier", "-", "-", "-", 0, 0),
         Record("TypeSignature", "-", "-", "-", 0, 0)}

\* The code blocks and function signatures a module has, by index.
CodeBlockIndices == {0}

FunctionSignatureIndices == {0}

TemplateIndices == {0, 1, 2}

\* lazy_init::Lazy<Result<T, LoaderError>>: empty, or holding Ok(handle) or
\* Err(error).  "Panic" is the resolution not returning at all.
Uninit == [state |-> "Uninit", handle |-> "-", index |-> 0, error |-> "-"]

OkCell(handle, index) == [state |-> "Ok", handle |-> handle, index |-> index, error |-> "-"]

ErrCell(error, index) == [state |-> "Err", handle |-> "-", index |-> index, error |-> error]

PanicCell == [state |-> "Panic", handle |-> "-", index |-> 0, error |-> "-"]

\* function::Definition::new and function::Instantiation::new
Definition_new(definition) == [definition |-> definition, body |-> Uninit, signature |-> Uninit]

Instantiation_new(template) == [instantiation |-> template, template |-> Uninit]

\* symbol_wrapper!: Symbol::new is None for a Hidden export.
to_symbolOfAnyExport(definition) == [some |-> TRUE, name |-> definition.symbol]

to_symbol(definition) ==
    IF definition.export = "Hidden" THEN [some |-> FALSE, name |-> "-"]
    ELSE [some |-> TRUE, name |-> definition.symbol]

NoSymbols == [n \in {} |-> 0]

\* SymbolLookup::try_insert of the symbol of definition number `index`.
SymbolLookup_try_insert(lookup, symbol, index) ==
    IF ~symbol.some THEN [ok |-> TRUE, lookup |-> lookup]
    ELSE IF symbol.name \in DOMAIN lookup THEN [ok |-> FALSE, lookup |-> lookup]
    ELSE [ok |-> TRUE,
          lookup |-> [n \in DOMAIN lookup \cup {symbol.name} |->
                         IF n = symbol.name THEN index ELSE lookup[n]]]

\* SymbolLookup::get: the number of the definition found, or 0 for None.
SymbolLookup_get(lookup, symbol) == IF symbol \in DOMAIN lookup THEN lookup[symbol] ELSE 0

NoModule ==
    [state |-> "None", module_identifier |-> FALSE, identifiers |-> 0,
     symbols |-> NoSymbols, function_definitions |-> <<>>, panic |-> "-"]

\* The closure from_source hands to iter_records, applied to one record.
from_source_record(module, record) ==
    CASE record.tag = "MetadataField" -> [module EXCEPT !.module_identifier = TRUE]
      [] record.tag = "Identifier" -> [module EXCEPT !.identifiers = @ + 1]
      [] record.tag = "FunctionDefinition" ->
            LET index == Len(module.function_definitions) + 1
                inserted == SymbolLookup_try_insert(module.symbols, to_symbol(record), index)
            IN  IF inserted.ok
                THEN [module EXCEPT !.symbols = inserted.lookup,
                                    !.function_definitions = Append(@, Definition_new(record))]
                ELSE [module EXCEPT !.panic = "TODO: handle duplicate symbol error"]
      [] OTHER -> [module EXCEPT !.panic = "unsupported"]

RECURSIVE iter_records(_, _)
iter_records(records, module) ==
    IF records = <<>> \/ module.panic # "-" THEN module
    ELSE iter_records(Tail(records), from_source_record(module, Head(records)))

Sourced(records, outcome) == [records |-> records, outcome |-> outcome]

Accessed(op, index, module_state, result) ==
    [op |-> op, index |-> index, module_state |-> module_state, result |-> result]

NoResolutions == [body |-> <<>>, signature |-> <<>>, template |-> <<>>]

\* Module::from_source; `source_error` is whether the source fails after its
\* records.
from_source(records, source_error) ==
    LET module == iter_records(records, [NoModule EXCEPT !.state = "Loaded"])
        count == Len(module.function_definitions)
    IN  /\ load_panic = "-"
        /\ loadedModule.state = "None"
        /\ UNCHANGED <<instantiations, accessed>>
        /\ IF module.panic # "-"
           THEN /\ load_panic' = module.panic
                /\ sourced' = Sourced(records, "Panic")
                /\ UNCHANGED <<loadedModule, definitions, resolutions>>
           ELSE IF source_error
           THEN /\ sourced' = Sourced(records, "Err")
                /\ UNCHANGED <<loadedModule, definitions, resolutions, load_panic>>
           ELSE /\ sourced' = Sourced(records, "Ok")
                /\ loadedModule' = [module EXCEPT !.function_definitions = [i \in 1..count |-> i]]
                /\ definitions' = module.function_definitions
                /\ resolutions' = [NoResolutions EXCEPT !.body = [i \in 1..count |-> 0],
                                                        !.signature = [i \in 1..count |-> 0]]
                /\ UNCHANGED load_panic

\* The caller drops its Arc<Module>, keeping the definitions it has cloned.
DropModule ==
    /\ load_panic = "-"
    /\ loadedModule.state = "Loaded"
    /\ loadedModule' = [loadedModule EXCEPT !.state = "Dropped"]
    /\ UNCHANGED <<definitions, instantiations, resolutions, sourced, accessed, load_panic>>

\* Module::upgrade_weak
upgrade_weak == loadedModule.state = "Loaded"

\* Module::get_code_block, get_function_signature and get_function_template
get_code_block(index) ==
    IF index \in CodeBlockIndices THEN OkCell("Code", index) ELSE ErrCell("IndexOutOfBounds", index)

get_function_signature(index) ==
    IF index \in FunctionSignatureIndices
    THEN OkCell("Signature", index) ELSE ErrCell("IndexOutOfBounds", index)

get_function_template(index) ==
    IF index < Len(loadedModule.function_definitions)
    THEN OkCell("Template", index) ELSE ErrCell("IndexOutOfBounds", index)

\* The closures run by get_or_create.
resolve_body(d) ==
    IF definitions[d].definition.body = "Foreign" THEN PanicCell
    ELSE IF ~upgrade_weak THEN ErrCell("ModuleDropped", 0)
    ELSE get_code_block(definitions[d].definition.code)

resolve_signature(d) ==
    IF ~upgrade_weak THEN ErrCell("ModuleDropped", 0)
    ELSE get_function_signature(definitions[d].definition.signature)

resolve_template(i) ==
    IF ~upgrade_weak THEN ErrCell("ModuleDropped", 0)
    ELSE get_function_template(instantiations[i].instantiation)

\* What an access finds in the cell once get_or_create has returned, and
\* whether the closure ran.
Definition_body_cellUnmemoized(d) == [cell |-> resolve_body(d), ran |-> TRUE]

Definition_body_cell(d) ==
    IF definitions[d].body.state = "Uninit"
    THEN [cell |-> resolve_body(d), ran |-> TRUE]
    ELSE [cell |-> definitions[d].body, ran |-> FALSE]

Definition_signature_cell(d) ==
    IF definitions[d].signature.state = "Uninit"
    THEN [cell |-> resolve_signature(d), ran |-> TRUE]
    ELSE [cell |-> definitions[d].signature, ran |-> FALSE]

Instantiation_template_cell(i) ==
    IF instantiations[i].template.state = "Uninit"
    THEN [cell |-> resolve_template(i), ran |-> TRUE]
    ELSE [cell |-> instantiations[i].template, ran |-> FALSE]

\* The definitions a caller can hold: those found through module.symbols().
SymbolDefinitions == {loadedModule.symbols[n] : n \in DOMAIN loadedModule.symbols}

\* Definition::body
Definition_body(d) ==
    LET got == Definition_body_cell(d)
    IN  /\ load_panic = "-"
        /\ d \in SymbolDefinitions
        /\ resolutions' = [resolutions EXCEPT !.body[d] = IF got.ran THEN @ + 1 ELSE @]
        /\ UNCHANGED <<loadedModule, instantiations, sourced>>
        /\ IF got.cell.state = "Panic"
           THEN /\ load_panic' = "foreign function bodies not yet supported"
                /\ UNCHANGED <<definitions, accessed>>
           ELSE /\ definitions' = [definitions EXCEPT ![d].body = got.cell]
                /\ accessed' = Accessed("body", d, loadedModule.state, got.cell)
                /\ UNCHANGED load_panic

\* Definition::signature
Definition_signature(d) ==
    LET got == Definition_signature_cell(d)
    IN  /\ load_panic = "-"
        /\ d \in SymbolDefinitions
        /\ resolutions' = [resolutions EXCEPT !.signature[d] = IF got.ran THEN @ + 1 ELSE @]
        /\ definitions' = [definitions EXCEPT ![d].signature = got.cell]
        /\ accessed' = Accessed("signature", d, loadedModule.state, got.cell)
        /\ UNCHANGED <<loadedModule, instantiations, sourced, load_panic>>

\* Instantiation::new, for a template index of the loaded module.
NewInstantiation(template) ==
    /\ load_panic = "-"
    /\ loadedModule.state = "Loaded"
    /\ Len(instantiations) < MaxInstantiations
    /\ instantiations' = Append(instantiations, Instantiation_new(template))
    /\ resolutions' = [resolutions EXCEPT !.template = Append(@, 0)]
    /\ UNCHANGED <<loadedModule, definitions, sourced, accessed, load_panic>>

\* Instantiation::template
Instantiation_template(i) ==
    LET got == Instantiation_template_cell(i)
    IN  /\ load_panic = "-"
        /\ i \in 1..Len(instantiations)
        /\ resolutions' = [resolutions EXCEPT !.template[i] = IF got.ran THEN @ + 1 ELSE @]
        /\ instantiations' = [instantiations EXCEPT ![i].template = got.cell]
        /\ accessed' = Accessed("template", i, loadedModule.state, got.cell)
        /\ UNCHANGED <<loadedModule, definitions, sourced, load_panic>>

NextLoad ==
    \/ \E records \in SeqsUpTo(Records, MaxRecords), source_error \in BOOLEAN :
          from_source(records, source_error) /\ UNCHANGED notLoadVars
    \/ DropModule /\ UNCHANGED notLoadVars
    \/ \E d \in 1..MaxRecords : Definition_body(d) /\ UNCHANGED notLoadVars
    \/ \E d \in 1..MaxRecords : Definition_signature(d) /\ UNCHANGED notLoadVars
    \/ \E template \in TemplateIndices : NewInstantiation(template) /\ UNCHANGED notLoadVars
    \/ \E i \in 1..MaxInstantiations : Instantiation_template(i) /\ UNCHANGED notLoadVars

InitLoad ==
    /\ loadedModule = NoModule
    /\ definitions = <<>>
    /\ instantiations = <<>>
    /\ resolutions = NoResolutions
    /\ sourced = Sourced(<<>>, "None")
    /\ accessed = Accessed("none", 0, "None", Uninit)
    /\ load_panic = "-"

(***************************************************************************)
(* sailar::binary::buffer: a pool of reusable byte buffers.  A Vec<u8> is   *)
(* its bytes and its capacity.                                             *)
(***************************************************************************)
Max(a, b) == IF a > b THEN a ELSE b

Front(s) == SubSeq(s, 1, Len(s) - 1)

Last(s) == s[Len(s)]

RemoveAt(s, i) == SubSeq(s, 1, i - 1) \o SubSeq(s, i + 1, Len(s))

\* Vec::new()
Vec_new == [bytes |-> <<>>, capacity |-> 0]

\* The least capacity a Vec<u8> allocates.
MinNonZeroCapacity == 8

\* Vec::clear keeps the storage.
Vec_clear(buffer) == [buffer EXCEPT !.bytes = <<>>]

\* Vec::reserve: grows, at least doubling, when `additional` more bytes do
\* not fit the capacity.
Vec_reserve(buffer, additional) ==
    IF buffer.capacity - Len(buffer.bytes) >= additional THEN buffer
    ELSE [buffer EXCEPT !.capacity =
              Max(MinNonZeroCapacity, Max(2 * @, Len(buffer.bytes) + additional))]

\* Vec::extend_from_slice (write_all into a Vec), and Vec::push for one byte.
Vec_extend(buffer, bytes) ==
    [Vec_reserve(buffer, Len(bytes)) EXCEPT !.bytes = @ \o bytes]

\* Vec::resize(length, 0)
Vec_resize(buffer, length) ==
    IF length <= Len(buffer.bytes) THEN [buffer EXCEPT !.bytes = SubSeq(@, 1, length)]
    ELSE Vec_extend(buffer, [i \in 1..(length - Len(buffer.bytes)) |-> 0])

\* Pool::rent: the Rented buffer, and the buffers left in the pool.
Pool_rentKeepingBytes(buffers) ==
    IF buffers = <<>> THEN [buffer |-> Vec_new, buffers |-> buffers]
    ELSE [buffer |-> Last(buffers), buffers |-> Front(buffers)]

Pool_rent(buffers) ==
    IF buffers = <<>> THEN [buffer |-> Vec_new, buffers |-> buffers]
    ELSE [buffer |-> Vec_clear(Last(buffers)), buffers |-> Front(buffers)]

\* Pool::rent_with_capacity
Pool_rent_with_capacity(buffers, capacity) ==
    LET r == Pool_rent(buffers)
    IN  IF r.buffer.capacity < capacity
        THEN [r EXCEPT !.buffer = Vec_reserve(@, capacity)]
        ELSE r

\* Pool::rent_with_length
Pool_rent_with_length(buffers, length) ==
    LET r == Pool_rent_with_capacity(buffers, length)
    IN  [r EXCEPT !.buffer = Vec_resize(@, length)]

\* impl Drop for Rented: the buffers of the pool after the drop.
Rented_drop(buffers, buffer) == Append(buffers, buffer)

\* The capacities and lengths buffers are rented with, and the bytes pushed.
RentCapacities == {0, 9}

RentLengths == 0..MaxLength

PushedBytes == {1}

\* The outcome of the last call on the pool: the buffer rented or dropped,
\* and the buffers of the pool before the call.
RentLog(op, argument, buffer, before) ==
    [op |-> op, argument |-> argument, buffer |-> buffer, before |-> before]

Rent ==
    LET r == Pool_rent(pool_buffers)
    IN  /\ Len(rented) < MaxRented
        /\ pool_buffers' = r.buffers
        /\ rented' = Append(rented, r.buffer)
        /\ rent_log' = RentLog("rent", 0, r.buffer, pool_buffers)

RentWithCapacity(capacity) ==
    LET r == Pool_rent_with_capacity(pool_buffers, capacity)
    IN  /\ Len(rented) < MaxRented
        /\ pool_buffers' = r.buffers
        /\ rented' = Append(rented, r.buffer)
        /\ rent_log' = RentLog("rent_with_capacity", capacity, r.buffer, pool_buffers)

RentWithLength(length) ==
    LET r == Pool_rent_with_length(pool_buffers, length)
    IN  /\ Len(rented) < MaxRented
        /\ pool_buffers' = r.buffers
        /\ rented' = Append(rented, r.buffer)
        /\ rent_log' = RentLog("rent_with_length", length, r.buffer, pool_buffers)

\* A write into a rented buffer, through DerefMut: Vec::push.
PushByte(i, byte) ==
    /\ i \in 1..Len(rented)
    /\ Len(rented[i].bytes) < MaxLength
    /\ rented' = [rented EXCEPT ![i] = Vec_extend(@, <<byte>>)]
    /\ UNCHANGED <<pool_buffers, rent_log>>

\* A Rented buffer goes out of scope.
DropRented(i) ==
    /\ i \in 1..Len(rented)
    /\ pool_buffers' = Rented_drop(pool_buffers, rented[i])
    /\ rented' = RemoveAt(rented, i)
    /\ rent_log' = RentLog("drop", 0, rented[i], pool_buffers)

NextPool ==
    \/ Rent /\ UNCHANGED notPoolVars
    \/ \E capacity \in RentCapacities : RentWithCapacity(capacity) /\ UNCHANGED notPoolVars
    \/ \E length \in RentLengths : RentWithLength(length) /\ UNCHANGED notPoolVars
    \/ \E i \in 1..MaxRented, byte \in PushedBytes : PushByte(i, byte) /\ UNCHANGED notPoolVars
    \/ \E i \in 1..MaxRented : DropRented(i) /\ UNCHANGED notPoolVars

\* Pool::default()
InitPool ==
    /\ pool_buffers = <<>>
    /\ rented = <<>>
    /\ rent_log = RentLog("none", 0, Vec_new, <<>>)

(***************************************************************************)
(* sailar::module: building a module, writing it and parsing it back.      *)
(***************************************************************************)
\* Identifiers are their bytes.
Id_f == <<102>>

Id_g == <<103>>

Id_l == <<108>>

Id_e == <<101, 112>>

LongName == [i \in 1..(U8Max + 1) |-> 97]

\* A module name of the greatest length that still fits LengthSize::One.
Name255 == [i \in 1..U8Max |-> 78]

ModuleNames == {<<77, 111, 100>>, Name255}

ModuleVersions == {<<>>, <<1, 2>>, <<1, 300>>, <<70000>>}

\* block::Block values a function body can be defined by.
BlockReturningNothing ==
    [NoBlock EXCEPT !.present = TRUE, !.instructions = <<Ret(<<>>)>>]

BlockReturningInput ==
    [NoBlock EXCEPT !.present = TRUE, !.input_types = <<"S32">>, !.result_types = <<"S32">>,
                    !.instructions = <<Nop, Ret(<<IndexedRegister(0)>>)>>]

\* function::Body
Defined(block) == [kind |-> "Defined", block |-> block, library_name |-> <<>>, entry_point_name |-> <<>>]

Foreign(library_name, entry_point_name) ==
    [kind |-> "Foreign", block |-> NoBlock, library_name |-> library_name,
     entry_point_name |-> entry_point_name]

\* The arguments of an add_function call: symbol, signature, and the
\* function::Definition (body and export) of function::Kind::Defined.
FunctionInput(symbol, signature, export, body) ==
    [symbol |-> symbol, signature |-> signature, export |-> export, body |-> body]

FunctionInputs ==
    {FunctionInput(Id_f, Signature(<<>>, <<>>), "Yes", Defined(BlockReturningNothing)),
     FunctionInput(Id_f, Signature(<<"S32">>, <<"S32">>), "No", Foreign(LongName, Id_e)),
     FunctionInput(Id_g, Signature(<<"S32">>, <<"S32">>), "Yes", Defined(BlockReturningInput)),
     FunctionInput(Id_g, Signature(<<"U8">>, <<>>), "No", Foreign(Id_l, Id_e))}

\* FormatVersion::MINIMUM_SUPPORTED
MINIMUM_SUPPORTED == [major |-> 0, minor |-> 12]

RECURSIVE resize_to_fit_many(_, _)
resize_to_fit_many(size, numbers) ==
    IF numbers = <<>> THEN size
    ELSE resize_to_fit_many(resize_to_fit(size, Head(numbers)), Tail(numbers))

NoContents == [some |-> FALSE, bytes |-> <<>>]

SomeContents(bytes) == [some |-> TRUE, bytes |-> bytes]

\* impl From<Arc<ModuleIdentifier>> for Module, reached from Module::new
Module_new(name, version) ==
    [exists |-> TRUE,
     contents |-> NoContents,
     format_version |-> MINIMUM_SUPPORTED,
     length_size |-> resize_to_fit_many(
                         resize_to_fit(resize_to_fit("One", Len(name)), Len(version)), version),
     identifier |-> [name |-> name, version |-> version],
     symbols |-> {},
     function_definitions |-> <<>>]

NoSailarModule ==
    [exists |-> FALSE, contents |-> NoContents, format_version |-> MINIMUM_SUPPORTED,
     length_size |-> "One", identifier |-> [name |-> <<>>, version |-> <<>>],
     symbols |-> {}, function_definitions |-> <<>>]

DefinedFunction(f) ==
    [function |-> [symbol |-> f.symbol, signature |-> f.signature],
     definition |-> [body |-> f.body, export |-> f.export]]

\* Module::add_function: the module after the call and the error returned.
add_functionCheckingLast(this, f) ==
    [module |-> [this EXCEPT !.function_definitions = Append(@, DefinedFunction(f)),
                             !.symbols = @ \cup {f.symbol}, !.contents = NoContents],
     error |-> IF f.symbol \in this.symbols THEN "DuplicateSymbolError" ELSE "None",
     symbol |-> f.symbol]

add_functionFittingFunctionOnly(this, f) ==
    IF f.symbol \in this.symbols
    THEN [module |-> this, error |-> "DuplicateSymbolError", symbol |-> f.symbol]
    ELSE LET foreign_size ==
                 IF f.body.kind = "Foreign"
                 THEN resize_to_fit(resize_to_fit("One", Len(f.body.library_name)),
                                    Len(f.body.entry_point_name))
                 ELSE "One"
             length_size ==
                 resize_to_fit(
                     resize_to_fit(resize_to_fit(foreign_size, Len(f.symbol)),
                                   Len(f.signature.result_types)),
                     Len(f.signature.parameter_types))
         IN  [module |-> [this EXCEPT !.symbols = @ \cup {f.symbol},
                                      !.function_definitions = Append(@, DefinedFunction(f)),
                                      !.length_size = length_size,
                                      !.contents = NoContents],
              error |-> "None", symbol |-> f.symbol]

add_function(this, f) ==
    IF f.symbol \in this.symbols
    THEN [module |-> this, error |-> "DuplicateSymbolError", symbol |-> f.symbol]
    ELSE LET foreign_size ==
                 IF f.body.kind = "Foreign"
                 THEN resize_to_fit(resize_to_fit(this.length_size, Len(f.body.library_name)),
                                    Len(f.body.entry_point_name))
                 ELSE this.length_size
             length_size ==
                 resize_to_fit(
                     resize_to_fit(resize_to_fit(foreign_size, Len(f.symbol)),
                                   Len(f.signature.result_types)),
                     Len(f.signature.parameter_types))
         IN  [module |-> [this EXCEPT !.symbols = @ \cup {f.symbol},
                                      !.function_definitions = Append(@, DefinedFunction(f)),
                                      !.length_size = length_size,
                                      !.contents = NoContents],
              error |-> "None", symbol |-> f.symbol]

\* binary::MAGIC, "SAILAR"
MAGIC == <<83, 65, 73, 76, 65, 82>>

\* u8::from(LengthSize) and LengthSize::try_from(u8)
LengthSizeTag(size) == SizeRank(size) - 1

LengthSizeTags == {LengthSizeTag(size) : size \in {"One", "Two", "Four"}}

LengthSize_try_from(tag) == CHOOSE size \in {"One", "Two", "Four"} : LengthSizeTag(size) = tag

\* u8::from(TypeCode) of a primitive type
TypeCode(t) == CASE t = "U8" -> 1 [] t = "S32" -> 7 [] t = "F32" -> 9

\* u8::from(Opcode)
Opcode(op) == CASE op = "Nop" -> 0 [] op = "Ret" -> 1 [] op = "Break" -> 254

\* to_le_bytes of an integer of `count` bytes
RECURSIVE to_le_bytes(_, _)
to_le_bytes(value, count) ==
    IF count = 0 THEN <<>> ELSE <<value % 256>> \o to_le_bytes(value \div 256, count - 1)

\* Whether <integer type>::try_from(length) is Ok for the integer of a size.
FitsLengthSize(size, length) ==
    CASE size = "One" -> length <= U8Max
      [] size = "Two" -> length <= U16Max
      [] size = "Four" -> TRUE

\* Wrapper::write_length.  A length that does not fit is the unreachable!()
\* of length_writer: it is written here as the byte -1, which no other write
\* produces, and makes the whole write a panic.
write_length(size, length) ==
    IF FitsLengthSize(size, length) THEN to_le_bytes(length, byte_count(size)) ELSE <<-1>>

Panicked(bytes) == -1 \in Range(bytes)

\* Wrapper::write_identifier
write_identifier(size, identifier) == write_length(size, Len(identifier)) \o identifier

\* Wrapper::write_buffer_and_count
write_buffer_and_count(size, count, buffer) ==
    IF count > 0
    THEN write_length(size, Len(buffer)) \o write_length(size, count) \o buffer
    ELSE write_length(size, 0)

\* The capacity of rent_default_buffer!
DefaultCapacity == 32

\* rent_default_buffer!
rent_default_bufferKeepingBytes(buffers) ==
    LET r == Pool_rentKeepingBytes(buffers)
    IN  IF r.buffer.capacity < DefaultCapacity
        THEN [r EXCEPT !.buffer = Vec_reserve(@, DefaultCapacity)]
        ELSE r

rent_default_buffer(buffers) == Pool_rent_with_capacity(buffers, DefaultCapacity)

\* A rented Vec after the writes through its Wrapper that made its bytes `bytes`.
Vec_written(buffer, bytes) ==
    Vec_extend(buffer, SubSeq(bytes, Len(buffer.bytes) + 1, Len(bytes)))

\* lookup::IndexMap: the FxHashMap from each key to the index stored for it.
IndexMap_default == <<>>

IndexMap_len(lookup) == Cardinality(DOMAIN lookup)

get_or_insertCountingFromOne(lookup, key) ==
    LET next_index == IndexMap_len(lookup) + 1
    IN  IF key \in DOMAIN lookup
        THEN [index |-> lookup[key], lookup |-> lookup]
        ELSE [index |-> next_index, lookup |-> (key :> next_index) @@ lookup]

get_or_insertOverwriting(lookup, key) ==
    LET next_index == IndexMap_len(lookup)
    IN  [index |-> next_index, lookup |-> (key :> next_index) @@ lookup]

get_or_insert(lookup, key) ==
    LET next_index == IndexMap_len(lookup)
    IN  IF key \in DOMAIN lookup
        THEN [index |-> lookup[key], lookup |-> lookup]
        ELSE [index |-> next_index, lookup |-> (key :> next_index) @@ lookup]

\* The keys of a map in the order of the indices stored for them.
KeysByIndex(lookup) ==
    [i \in 1..IndexMap_len(lookup) |->
        CHOOSE key \in DOMAIN lookup :
            Cardinality({other \in DOMAIN lookup : lookup[other] < lookup[key]}) = i - 1]

\* An index written inline, with the table it is an index of.
WrittenIndex(table, index) == [table |-> table, index |-> index]

Reverse(s) == [i \in 1..Len(s) |-> s[Len(s) + 1 - i]]

\* IndexMap::into_keys: the keys in the iteration order of the FxHashMap,
\* which depends on their hashes and not on their indices.
KeyOrders == {"ByIndex", "ByIndexReversed"}

into_keys(lookup, order) ==
    IF order = "ByIndex" THEN KeysByIndex(lookup) ELSE Reverse(KeysByIndex(lookup))

\* function::Definition::flags
Definition_flags(definition) ==
    (IF definition.body.kind = "Foreign" THEN 2 ELSE 0) + (IF definition.export = "Yes" THEN 1 ELSE 0)

\* The closure of write that writes one function definition (lines 202-215).
write_function_definition(size, st, current) ==
    LET signature == get_or_insert(st.function_signature_lookup, current.function.signature)
        head == <<Definition_flags(current.definition)>>
                    \o write_length(size, signature.index)
                    \o write_identifier(size, current.function.symbol)
        body == current.definition.body
    IN  IF body.kind = "Defined"
        THEN LET code == get_or_insert(st.code_block_lookup, body.block)
             IN  [st EXCEPT !.function_signature_lookup = signature.lookup,
                            !.code_block_lookup = code.lookup,
                            !.indices = @ \cup {WrittenIndex("function_signature", signature.index),
                                                WrittenIndex("code_block", code.index)},
                            !.buffer = @ \o head \o write_length(size, code.index)]
        ELSE LET library == get_or_insert(st.identifier_lookup, body.library_name)
             IN  [st EXCEPT !.function_signature_lookup = signature.lookup,
                            !.identifier_lookup = library.lookup,
                            !.indices = @ \cup {WrittenIndex("function_signature", signature.index),
                                                WrittenIndex("identifier", library.index)},
                            !.buffer = @ \o head \o write_length(size, library.index)
                                         \o write_identifier(size, body.entry_point_name)]

RECURSIVE write_function_definitions(_, _, _)
write_function_definitions(size, st, function_definitions) ==
    IF function_definitions = <<>> THEN st
    ELSE write_function_definitions(
             size, write_function_definition(size, st, Head(function_definitions)),
             Tail(function_definitions))

\* write_many of the indices of types, interning each in type_signature_lookup.
RECURSIVE write_type_indices(_, _, _)
write_type_indices(size, st, types) ==
    IF types = <<>> THEN st
    ELSE LET index == get_or_insert(st.type_signature_lookup, Head(types))
         IN  write_type_indices(
                 size,
                 [st EXCEPT !.type_signature_lookup = index.lookup,
                            !.indices = @ \cup {WrittenIndex("type_signature", index.index)},
                            !.buffer = @ \o write_length(size, index.index)],
                 Tail(types))

\* The closure of write that writes one function signature (lines 231-238).
RECURSIVE write_function_signatures(_, _, _)
write_function_signatures(size, st, signatures) ==
    IF signatures = <<>> THEN st
    ELSE LET current == Head(signatures)
             counts == write_length(size, Len(current.result_types))
                           \o write_length(size, Len(current.parameter_types))
         IN  write_function_signatures(
                 size,
                 write_type_indices(size, [st EXCEPT !.buffer = @ \o counts],
                                    current.result_types \o current.parameter_types),
                 Tail(signatures))

\* write_value, for the values of the blocks above (registers).
write_value(size, value) == <<0>> \o write_length(size, value.index)

RECURSIVE write_values(_, _)
write_values(size, values) ==
    IF values = <<>> THEN <<>> ELSE write_value(size, Head(values)) \o write_values(size, Tail(values))

\* The closure that writes one instruction (lines 274-289).
write_instruction(size, instruction) ==
    <<Opcode(instruction.op)>> \o
        (IF instruction.op = "Ret"
         THEN write_length(size, Len(instruction.values)) \o write_values(size, instruction.values)
         ELSE <<>>)

RECURSIVE write_instructions(_, _)
write_instructions(size, instructions) ==
    IF instructions = <<>> THEN <<>>
    ELSE write_instruction(size, Head(instructions)) \o write_instructions(size, Tail(instructions))

\* The closure of write that writes one code block (lines 242-292).
RECURSIVE write_code_blocks(_, _, _)
write_code_blocks(size, st, blocks) ==
    IF blocks = <<>> THEN st
    ELSE LET current == Head(blocks)
             counts == write_length(size, Len(current.input_types))
                           \o write_length(size, Len(current.result_types))
                           \o write_length(size, Len(current.temporary_types))
             typed == write_type_indices(
                          size, [st EXCEPT !.buffer = @ \o counts],
                          current.input_types \o current.result_types \o current.temporary_types)
             instruction_rent == rent_default_buffer(typed.pool)
             instructions ==
                 Vec_extend(instruction_rent.buffer, write_instructions(size, current.instructions))
         IN  write_code_blocks(
                 size,
                 [typed EXCEPT !.buffer = @ \o write_buffer_and_count(
                                                   size, Len(current.instructions),
                                                   instructions.bytes),
                               !.pool = Rented_drop(instruction_rent.buffers, instructions)],
                 Tail(blocks))

RECURSIVE write_identifiers(_, _)
write_identifiers(size, identifiers) ==
    IF identifiers = <<>> THEN <<>>
    ELSE write_identifier(size, Head(identifiers)) \o write_identifiers(size, Tail(identifiers))

RECURSIVE write_lengths(_, _)
write_lengths(size, numbers) ==
    IF numbers = <<>> THEN <<>>
    ELSE write_length(size, Head(numbers)) \o write_lengths(size, Tail(numbers))

\* The header buffer of write (lines 180-188).
write_header(size, identifier) ==
    write_identifier(size, identifier.name)
        \o write_length(size, Len(identifier.version) * byte_count(size))
        \o write_lengths(size, identifier.version)

\* The lookups of write (lines 191-193, 227), the buffer being written, the
\* pool, the rented buffers that write holds once they are written, and every
\* index written inline so far.
NoLookups ==
    [buffer |-> <<>>, function_signature_lookup |-> IndexMap_default,
     code_block_lookup |-> IndexMap_default, identifier_lookup |-> IndexMap_default,
     type_signature_lookup |-> IndexMap_default, pool |-> <<>>,
     indices |-> {},
     header |-> Vec_new, definitions_buffer |-> Vec_new,
     function_signature_buffer |-> Vec_new, code_block_buffer |-> Vec_new,
     identifiers |-> Vec_new, type_signatures |-> Vec_new]

\* Option<&buffer::Pool>
NoPool == [some |-> FALSE, buffers |-> <<>>]

SomePool(buffers) == [some |-> TRUE, buffers |-> buffers]

\* Pool::existing_or_default
existing_or_default(pool) == IF pool.some THEN pool.buffers ELSE <<>>

\* The header of write (lines 180-188): its buffer is rented, written, and
\* dropped at the end of the block.
write_header_buffer(this, buffers) ==
    LET header_rent == rent_default_buffer(buffers)
        header == Vec_extend(header_rent.buffer,
                             write_header(this.length_size, this.identifier))
    IN  [NoLookups EXCEPT !.header = header,
                          !.pool = Rented_drop(header_rent.buffers, header)]

\* The definitions of write (lines 194-225): definitions_buffer is kept, the
\* buffer of the functions is dropped at the end of the inner block.
write_definitions_buffer(this, st) ==
    LET size == this.length_size
        definitions_rent == rent_default_buffer(st.pool)
        functions_rent == rent_default_buffer(definitions_rent.buffers)
        defined == write_function_definitions(
                       size, [st EXCEPT !.buffer = functions_rent.buffer.bytes],
                       this.function_definitions)
        functions == Vec_written(functions_rent.buffer, defined.buffer)
    IN  [defined EXCEPT
             !.definitions_buffer =
                 Vec_extend(definitions_rent.buffer,
                            write_length(size, Len(this.function_definitions))
                                \o functions.bytes
                                \o write_length(size, 0) \o write_length(size, 0)
                                \o write_length(size, 0) \o write_length(size, 0)),
             !.pool = Rented_drop(functions_rent.buffers, functions)]

\* The function signatures of write (lines 229-238).
write_function_signature_buffer(this, order, st) ==
    LET function_signature_rent == rent_default_buffer(st.pool)
        signatures == write_function_signatures(
                          this.length_size,
                          [st EXCEPT !.buffer = function_signature_rent.buffer.bytes],
                          into_keys(st.function_signature_lookup, order))
    IN  [signatures EXCEPT
             !.function_signature_buffer =
                 Vec_written(function_signature_rent.buffer, signatures.buffer),
             !.pool = function_signature_rent.buffers]

\* The code blocks of write (lines 240-292).
write_code_block_buffer(this, order, st) ==
    LET code_block_rent == rent_default_buffer(st.pool)
        blocks == write_code_blocks(
                      this.length_size,
                      [st EXCEPT !.buffer = code_block_rent.buffer.bytes,
                                 !.pool = code_block_rent.buffers],
                      into_keys(st.code_block_lookup, order))
    IN  [blocks EXCEPT !.code_block_buffer = Vec_written(code_block_rent.buffer, blocks.buffer)]

\* The identifiers of write (lines 294-299): their buffer is dropped at the end
\* of the block.
write_identifier_buffer(this, order, st) ==
    LET identifier_rent == rent_default_buffer(st.pool)
        identifiers ==
            Vec_extend(identifier_rent.buffer,
                       write_identifiers(this.length_size,
                                         into_keys(st.identifier_lookup, order)))
    IN  [st EXCEPT !.identifiers = identifiers,
                   !.pool = Rented_drop(identifier_rent.buffers, identifiers)]

\* The type signatures of write (lines 301-309): their buffer is dropped at the
\* end of the block.
write_type_signature_buffer(order, st) ==
    LET type_keys == into_keys(st.type_signature_lookup, order)
        type_signature_rent == rent_default_buffer(st.pool)
        type_signatures ==
            Vec_extend(type_signature_rent.buffer,
                       [i \in 1..Len(type_keys) |-> TypeCode(type_keys[i])])
    IN  [st EXCEPT !.type_signatures = type_signatures,
                   !.pool = Rented_drop(type_signature_rent.buffers, type_signatures)]

\* The writes of write to its destination (lines 155-157, 186-187, 298, 308,
\* 311-322), and the pool once the buffers that write still holds are dropped,
\* the last one declared first.
write_output(this, st) ==
    LET size == this.length_size
    IN  [bytes |->
             MAGIC
                 \o <<this.format_version.major, this.format_version.minor, LengthSizeTag(size)>>
                 \o write_length(size, Len(st.header.bytes)) \o st.header.bytes
                 \o write_buffer_and_count(size, IndexMap_len(st.identifier_lookup),
                                           st.identifiers.bytes)
                 \o write_buffer_and_count(size, IndexMap_len(st.type_signature_lookup),
                                           st.type_signatures.bytes)
                 \o write_buffer_and_count(size, IndexMap_len(st.function_signature_lookup),
                                           st.function_signature_buffer.bytes)
                 \o write_length(size, 0)
                 \o write_buffer_and_count(size, IndexMap_len(st.code_block_lookup),
                                           st.code_block_buffer.bytes)
                 \o write_length(size, 0)
                 \o st.definitions_buffer.bytes
                 \o write_length(size, 0) \o write_length(size, 0)
                 \o write_length(size, 0) \o write_length(size, 0),
         buffers |->
             Rented_drop(
                 Rented_drop(Rented_drop(st.pool, st.code_block_buffer),
                             st.function_signature_buffer),
                 st.definitions_buffer)]

\* The buffers of write once every section is written (lines 180-309), before
\* they are written to the destination.
write_buffers(this, order, buffer_pool) ==
    write_type_signature_buffer(
        order,
        write_identifier_buffer(
            this, order,
            write_code_block_buffer(
                this, order,
                write_function_signature_buffer(
                    this, order,
                    write_definitions_buffer(
                        this,
                        write_header_buffer(this, existing_or_default(buffer_pool)))))))

\* writer::write: the bytes written to the destination for a module, under an
\* iteration order of the hash maps, and the buffers of the pool afterwards.
\* Each buffer is rented from the pool and goes back to it where it is dropped.
write(this, order, buffer_pool) == write_output(this, write_buffers(this, order, buffer_pool))

\* input::Wrapper: the bytes not read yet, the offset, and the length size.
Wrapper(source, offset, length_size) ==
    [source |-> source, offset |-> offset, length_size |-> length_size]

Advance(src, count) ==
    [src EXCEPT !.source = SubSeq(@, count + 1, Len(@)), !.offset = @ + count]

RECURSIVE from_le_bytes(_)
from_le_bytes(bytes) ==
    IF bytes = <<>> THEN 0 ELSE Head(bytes) + 256 * from_le_bytes(Tail(bytes))

\* The outcome of a step of the parser: a value and the wrapper after it, or
\* an error and the offset it carries.
ParseOk(value, src) == [ok |-> TRUE, value |-> value, src |-> src, error |-> "None", offset |-> src.offset]

ParseErr(error, src) == [ok |-> FALSE, value |-> 0, src |-> src, error |-> error, offset |-> src.offset]

\* Wrapper::read_length over read_length_one, read_length_two, read_length_four
read_lengthBigEndian(src, missing_error) ==
    LET count == byte_count(src.length_size)
    IN  IF Len(src.source) >= count
        THEN ParseOk(from_le_bytes(Reverse(SubSeq(src.source, 1, count))), Advance(src, count))
        ELSE ParseErr(missing_error, Advance(src, Len(src.source)))

read_length(src, missing_error) ==
    LET count == byte_count(src.length_size)
    IN  IF Len(src.source) >= count
        THEN ParseOk(from_le_bytes(SubSeq(src.source, 1, count)), Advance(src, count))
        ELSE ParseErr(missing_error, Advance(src, Len(src.source)))

\* Identifier::from_byte_slice
Identifier_from_byte_slice(bytes) ==
    IF bytes = <<>> THEN "InvalidIdentifier(Empty)"
    ELSE IF 0 \in Range(bytes) THEN "InvalidIdentifier(ContainsNull)"
    ELSE "None"

\* Vec::with_capacity(length).as_mut_slice(): a vector of capacity `length`
\* has no elements, so the slice read_exact is asked to fill is empty.
with_capacity_as_mut_slice(length) == 0

\* Wrapper::read_identifier
read_identifier(src) ==
    LET length == read_length(src, "InvalidIdentifier(Empty)")
    IN  IF ~length.ok THEN length
        ELSE LET count == with_capacity_as_mut_slice(length.value)
             IN  IF Len(length.src.source) < count THEN ParseErr("IO", length.src)
                 ELSE LET buffer == SubSeq(length.src.source, 1, count)
                          after == Advance(length.src, count)
                          invalid == Identifier_from_byte_slice(buffer)
                      IN  IF invalid # "None" THEN ParseErr(invalid, after)
                          ELSE ParseOk(buffer, after)

\* read_many_to_vec of read_length, for the version numbers of the header.
RECURSIVE read_version_numbers(_, _, _)
read_version_numbers(src, count, numbers) ==
    IF count = 0 THEN ParseOk(numbers, src)
    ELSE LET number == read_length(src, "MissingModuleVersionNumber")
         IN  IF ~number.ok THEN number
             ELSE read_version_numbers(number.src, count - 1, Append(numbers, number.value))

\* read_many_to_vec of read_identifier
RECURSIVE read_identifiers(_, _, _)
read_identifiers(src, count, identifiers) ==
    IF count = 0 THEN ParseOk(identifiers, src)
    ELSE LET identifier == read_identifier(src)
         IN  IF ~identifier.ok THEN identifier
             ELSE read_identifiers(identifier.src, count - 1, Append(identifiers, identifier.value))

TypeCodes == {TypeCode(t) : t \in Types}

\* read_many_to_vec of the type signature tags
RECURSIVE read_type_signatures(_, _, _)
read_type_signatures(src, count, signatures) ==
    IF count = 0 THEN ParseOk(signatures, src)
    ELSE IF src.source = <<>> THEN ParseErr("MissingTypeSignature", src)
    ELSE IF Head(src.source) \notin TypeCodes THEN ParseErr("InvalidTypeCode", Advance(src, 1))
    ELSE read_type_signatures(
             Advance(src, 1), count - 1,
             Append(signatures, CHOOSE t \in Types : TypeCode(t) = Head(src.source)))

\* Wrapper::read_size_and_count
read_size_and_count(src, missing_size, missing_count) ==
    LET size == read_length(src, missing_size)
    IN  IF ~size.ok THEN size
        ELSE IF size.value = 0 THEN ParseOk([size |-> 0, count |-> 0], size.src)
        ELSE LET count == read_length(size.src, missing_count)
             IN  IF ~count.ok THEN count
                 ELSE ParseOk([size |-> size.value, count |-> count.value], count.src)

\* Wrapper::parse_buffer: the wrapper over the next `length` bytes.
parse_buffer(src, length) ==
    IF Len(src.source) < length THEN ParseErr("IO", src)
    ELSE ParseOk(Wrapper(SubSeq(src.source, 1, length), src.offset, src.length_size),
                 Advance(src, length))

\* The header parser of parse (lines 345-357).
parse_header(src) ==
    LET name == read_identifier(src)
    IN  IF ~name.ok THEN name
        ELSE LET length == read_length(name.src, "MissingModuleVersionLength")
             IN  IF ~length.ok THEN length
                 ELSE LET numbers == read_version_numbers(length.src, length.value, <<>>)
                      IN  IF ~numbers.ok THEN numbers
                          ELSE ParseOk([name |-> name.value, version |-> numbers.value], numbers.src)

\* parse, after the length size has been set (lines 338-412).
parse_sections(src, format_version) ==
    LET header_size == read_length(src, "MissingHeaderSize")
    IN  IF ~header_size.ok THEN header_size
        ELSE IF header_size.value = 0 THEN ParseErr("MissingModuleHeader", header_size.src)
        ELSE
    LET header_buffer == parse_buffer(header_size.src, header_size.value)
    IN  IF ~header_buffer.ok THEN header_buffer
        ELSE
    LET header == parse_header(header_buffer.value)
    IN  IF ~header.ok THEN header
        ELSE
    LET identifier_size == read_size_and_count(header_buffer.src, "MissingIdentifierSize",
                                               "MissingIdentifierCount")
    IN  IF ~identifier_size.ok THEN identifier_size
        ELSE
    LET identifier_buffer == parse_buffer(identifier_size.src, identifier_size.value.size)
    IN  IF ~identifier_buffer.ok THEN identifier_buffer
        ELSE
    LET identifiers == read_identifiers(identifier_buffer.value, identifier_size.value.count, <<>>)
    IN  IF ~identifiers.ok THEN identifiers
        ELSE
    LET type_size == read_size_and_count(identifier_buffer.src, "MissingTypeSignatureSize",
                                         "MissingTypeSignatureCount")
    IN  IF ~type_size.ok THEN type_size
        ELSE
    LET type_buffer == parse_buffer(type_size.src, type_size.value.size)
    IN  IF ~type_buffer.ok THEN type_buffer
        ELSE
    LET type_signatures == read_type_signatures(type_buffer.value, type_size.value.count, <<>>)
    IN  IF ~type_signatures.ok THEN type_signatures
        ELSE ParseOk([NoSailarModule EXCEPT !.exists = TRUE,
                                            !.format_version = format_version,
                                            !.length_size = src.length_size,
                                            !.identifier = header.value],
                     type_buffer.src)

\* parser::parse
parse(source) ==
    LET magic == SubSeq(source, 1, Min(Len(MAGIC), Len(source)))
        src == Wrapper(SubSeq(source, Len(magic) + 1, Len(source)), Len(magic), "One")
        information == SubSeq(src.source, 1, Min(3, Len(src.source)))
        read == Advance(src, Len(information))
    IN  IF magic # MAGIC THEN ParseErr("InvalidMagic", src)
        ELSE IF Len(information) < 2 THEN ParseErr("MissingFormatVersion", read)
        ELSE IF Len(information) < 3 THEN ParseErr("MissingLengthSize", read)
        ELSE IF information[3] \notin LengthSizeTags THEN ParseErr("InvalidLengthSize", read)
        ELSE parse_sections(
                 [read EXCEPT !.length_size = LengthSize_try_from(information[3])],
                 [major |-> information[1], minor |-> information[2]])

\* The outcome of the last add_function, with the module before and after it.
Added(f, before, result) ==
    [op |-> "add_function", input |-> f, before |-> before, after |-> result.module,
     error |-> result.error, error_symbol |-> IF result.error = "None" THEN <<>> ELSE result.symbol]

\* The outcome of the last parse: the module whose contents were parsed, the
\* minor format version the source declared, and what parse returned.
Parsed(written, minor, result) ==
    [op |-> "parse", written |-> written, minor |-> minor, ok |-> result.ok,
     error |-> result.error,
     module |-> IF result.ok THEN result.value ELSE NoSailarModule]

\* What the last raw_contents did and returned: whether it serialized the
\* module, the cached contents it found, and the bytes of the RawModule it
\* returned.
Returned(serialized, before, bytes) ==
    [op |-> "raw_contents", serialized |-> serialized, before |-> before, bytes |-> bytes]

NoReturned == [op |-> "none", serialized |-> FALSE, before |-> NoContents, bytes |-> <<>>]

\* Module::new
NewModule(name, version, order) ==
    /\ ~sailarModule.exists
    /\ module_panic = "-"
    /\ sailarModule' = Module_new(name, version)
    /\ key_order' = order
    /\ contents_log' = NoReturned
    /\ UNCHANGED <<added, parsed, module_panic, module_pool, write_log>>

\* Module::add_function
AddFunction(f) ==
    LET result == add_function(sailarModule, f)
    IN  /\ sailarModule.exists
        /\ module_panic = "-"
        /\ sailarModule' = result.module
        /\ added' = Added(f, sailarModule, result)
        /\ contents_log' = NoReturned
        /\ UNCHANGED <<key_order, parsed, module_panic, module_pool, write_log>>

\* The capacity of the buffer raw_contents writes the module to.
ModuleBufferCapacity == 512

\* RentedOrOwned::with_capacity
RentedOrOwned_with_capacity(capacity, pool) ==
    IF pool.some THEN Pool_rent_with_capacity(pool.buffers, capacity)
    ELSE [buffer |-> [bytes |-> <<>>, capacity |-> capacity], buffers |-> <<>>]

\* The pool an operation is called with: the caller's pool, or none.
PoolArgument(use_pool) == IF use_pool THEN SomePool(module_pool) ELSE NoPool

raw_contentsAlwaysWriting(use_pool) ==
    /\ sailarModule.exists
    /\ module_panic = "-"
    /\ IF TRUE
       THEN \E module_rent \in {RentedOrOwned_with_capacity(ModuleBufferCapacity,
                                                            PoolArgument(use_pool))} :
            \E result \in {write(sailarModule, key_order,
                                 [PoolArgument(use_pool) EXCEPT !.buffers = module_rent.buffers])} :
            \E module_buffer \in {Vec_extend(module_rent.buffer, result.bytes)} :
                IF Panicked(result.bytes)
                THEN /\ module_panic' = "attempt to write invalid length value"
                     /\ contents_log' = Returned(TRUE, sailarModule.contents, <<>>)
                     /\ UNCHANGED <<sailarModule, module_pool>>
                ELSE /\ sailarModule' =
                            [sailarModule EXCEPT !.contents = SomeContents(module_buffer.bytes)]
                     /\ module_pool' = IF use_pool
                                       THEN Rented_drop(result.buffers, module_buffer)
                                       ELSE module_pool
                     /\ contents_log' =
                            Returned(TRUE, sailarModule.contents, module_buffer.bytes)
                     /\ UNCHANGED module_panic
       ELSE /\ contents_log' =
                   Returned(FALSE, sailarModule.contents, sailarModule.contents.bytes)
            /\ UNCHANGED <<sailarModule, module_panic, module_pool>>
    /\ UNCHANGED <<key_order, added, parsed, write_log>>

\* Module::raw_contents
raw_contents(use_pool) ==
    /\ sailarModule.exists
    /\ module_panic = "-"
    /\ IF ~sailarModule.contents.some
       THEN \E module_rent \in {RentedOrOwned_with_capacity(ModuleBufferCapacity,
                                                            PoolArgument(use_pool))} :
            \E result \in {write(sailarModule, key_order,
                                 [PoolArgument(use_pool) EXCEPT !.buffers = module_rent.buffers])} :
            \E module_buffer \in {Vec_extend(module_rent.buffer, result.bytes)} :
                IF Panicked(result.bytes)
                THEN /\ module_panic' = "attempt to write invalid length value"
                     /\ contents_log' = Returned(TRUE, sailarModule.contents, <<>>)
                     /\ UNCHANGED <<sailarModule, module_pool>>
                ELSE /\ sailarModule' =
                            [sailarModule EXCEPT !.contents = SomeContents(module_buffer.bytes)]
                     /\ module_pool' = IF use_pool
                                       THEN Rented_drop(result.buffers, module_buffer)
                                       ELSE module_pool
                     /\ contents_log' =
                            Returned(TRUE, sailarModule.contents, module_buffer.bytes)
                     /\ UNCHANGED module_panic
       ELSE /\ contents_log' =
                   Returned(FALSE, sailarModule.contents, sailarModule.contents.bytes)
            /\ UNCHANGED <<sailarModule, module_panic, module_pool>>
    /\ UNCHANGED <<key_order, added, parsed, write_log>>

\* The outcome of the last Module::write: the module written (whatever its
\* cached contents), whether a pool was passed, and the bytes written.
Written(this, use_pool, bytes) ==
    [op |-> "write", module |-> [this EXCEPT !.contents = NoContents],
     use_pool |-> use_pool, bytes |-> bytes]

\* Module::write to an empty destination
Module_write(use_pool) ==
    /\ sailarModule.exists
    /\ module_panic = "-"
    /\ \E result \in {write(sailarModule, key_order, PoolArgument(use_pool))} :
           IF Panicked(result.bytes)
           THEN /\ module_panic' = "attempt to write invalid length value"
                /\ UNCHANGED <<module_pool, write_log>>
           ELSE /\ write_log' = Written(sailarModule, use_pool, result.bytes)
                /\ module_pool' = IF use_pool THEN result.buffers ELSE module_pool
                /\ UNCHANGED module_panic
    /\ UNCHANGED <<sailarModule, key_order, added, parsed, contents_log>>

\* The bytes of a module, declaring another minor format version.
WithMinorVersion(bytes, minor) == [bytes EXCEPT ![Len(MAGIC) + 2] = minor]

MinorVersions == {MINIMUM_SUPPORTED.minor - 1, MINIMUM_SUPPORTED.minor}

\* Module::parse of the contents of the module, as written or with the minor
\* format version replaced.
ParseContents(minor) ==
    /\ sailarModule.exists
    /\ module_panic = "-"
    /\ sailarModule.contents.some
    /\ parsed' = Parsed(sailarModule, minor,
                        parse(WithMinorVersion(sailarModule.contents.bytes, minor)))
    /\ UNCHANGED <<sailarModule, key_order, added, module_panic, module_pool, write_log,
                   contents_log>>

NextModule ==
    \/ \E name \in ModuleNames, version \in ModuleVersions, order \in KeyOrders :
          NewModule(name, version, order) /\ UNCHANGED notModuleVars
    \/ \E f \in FunctionInputs : AddFunction(f) /\ UNCHANGED notModuleVars
    \/ raw_contents(FALSE) /\ UNCHANGED notModuleVars
    \/ \E minor \in MinorVersions : ParseContents(minor) /\ UNCHANGED notModuleVars

\* Writing a module several times, with and without the caller's pool, while
\* functions are added to it.
WrittenVersions == {<<>>, <<1, 300>>}

NextWrite ==
    \/ \E version \in WrittenVersions, order \in KeyOrders :
          NewModule(<<77, 111, 100>>, version, order) /\ UNCHANGED notModuleVars
    \/ \E f \in FunctionInputs : AddFunction(f) /\ UNCHANGED notModuleVars
    \/ \E use_pool \in BOOLEAN : raw_contents(use_pool) /\ UNCHANGED notModuleVars
    \/ \E use_pool \in BOOLEAN : Module_write(use_pool) /\ UNCHANGED notModuleVars

InitModule ==
    /\ sailarModule = NoSailarModule
    /\ key_order = "ByIndex"
    /\ added = [op |-> "none", input |-> FunctionInput(<<>>, Signature(<<>>, <<>>), "No", Defined(NoBlock)),
                before |-> NoSailarModule, after |-> NoSailarModule,
                error |-> "None", error_symbol |-> <<>>]
    /\ parsed = [op |-> "none", written |-> NoSailarModule, minor |-> 0, ok |-> FALSE,
                 error |-> "None", module |-> NoSailarModule]
    /\ module_panic = "-"
    /\ module_pool = <<>>
    /\ write_log = [op |-> "none", module |-> NoSailarModule, use_pool |-> FALSE, bytes |-> <<>>]
    /\ contents_log = NoReturned

(***************************************************************************)
(* One length or one identifier written by the writer's Wrapper and read   *)
(* back by the parser's Wrapper of the same length size.                   *)
(***************************************************************************)
LengthSizes == {"One", "Two", "Four"}

\* Lengths around the limits of one, two and four bytes.
Lengths ==
    {0, 1, 2, 127, 128, 254, 255, 256, 257, 4660, 32767, 32768, 65534, 65535, 65536, 65537,
     16777216, 305419896, 2147483647}

\* Valid identifiers: not empty and without a NUL byte.
Identifiers == {Id_f, Id_e, <<77, 111, 100>>, Name255, LongName}

Wire(op, size, length, identifier, bytes) ==
    [op |-> op, size |-> size, length |-> length, identifier |-> identifier, bytes |-> bytes,
     ok |-> FALSE, error |-> "None", read_length |-> 0, read_identifier |-> <<>>, consumed |-> 0]

\* Wrapper::write_length into an empty destination; a length that does not
\* fit ends in the unreachable!() of the length writer.
WriteLength(size, length) ==
    /\ wire.op \in {"none", "read_length", "read_identifier"}
    /\ wire' = Wire(IF Panicked(write_length(size, length)) THEN "panic" ELSE "write_length",
                    size, length, <<>>, write_length(size, length))

\* Wrapper::read_length of the bytes written
ReadLength ==
    LET result == read_length(Wrapper(wire.bytes, 0, wire.size), "MissingLength")
    IN  /\ wire.op = "write_length"
        /\ wire' = [wire EXCEPT !.op = "read_length", !.ok = result.ok, !.error = result.error,
                                !.read_length = IF result.ok THEN result.value ELSE 0,
                                !.consumed = result.src.offset]

\* Wrapper::write_identifier into an empty destination
WriteIdentifier(size, identifier) ==
    /\ wire.op \in {"none", "read_length", "read_identifier"}
    /\ wire' = Wire(IF Panicked(write_identifier(size, identifier))
                    THEN "panic" ELSE "write_identifier",
                    size, 0, identifier, write_identifier(size, identifier))

\* Wrapper::read_identifier of the bytes written
ReadIdentifier ==
    LET result == read_identifier(Wrapper(wire.bytes, 0, wire.size))
    IN  /\ wire.op = "write_identifier"
        /\ wire' = [wire EXCEPT !.op = "read_identifier", !.ok = result.ok,
                                !.error = result.error,
                                !.read_identifier = IF result.ok THEN result.value ELSE <<>>,
                                !.consumed = result.src.offset]

NextWire ==
    \/ \E size \in LengthSizes, length \in Lengths :
          WriteLength(size, length) /\ UNCHANGED notWireVars
    \/ ReadLength /\ UNCHANGED notWireVars
    \/ \E size \in LengthSizes, identifier \in Identifiers :
          WriteIdentifier(size, identifier) /\ UNCHANGED notWireVars
    \/ ReadIdentifier /\ UNCHANGED notWireVars

InitWire == wire = Wire("none", "One", 0, <<>>, <<>>)

(***************************************************************************)
(* lookup::IndexMap of the writer on its own (writer.rs 107-145).          *)
(***************************************************************************)
\* The keys passed to get_or_insert: function signatures, compared by value.
InternedKeys ==
    {Signature(<<>>, <<>>), Signature(<<"S32">>, <<"S32">>), Signature(<<"U8">>, <<>>),
     Signature(<<"S32">>, <<"U8", "S32">>)}

Interned(key, before, result) ==
    [op |-> "get_or_insert", key |-> key, index |-> result.index,
     before |-> before, after |-> result.lookup]

\* IndexMap::default
NewIndexMap ==
    /\ index_map' = IndexMap_default
    /\ interned' = [interned EXCEPT !.op = "default", !.before = index_map,
                                    !.after = IndexMap_default]
    /\ first_index' = <<>>

\* IndexMap::get_or_insert
GetOrInsert(key) ==
    LET result == get_or_insert(index_map, key)
    IN  /\ index_map' = result.lookup
        /\ interned' = Interned(key, index_map, result)
        /\ first_index' = IF key \in DOMAIN first_index THEN first_index
                          ELSE (key :> result.index) @@ first_index

NextIndexMap ==
    \/ NewIndexMap /\ UNCHANGED notIndexMapVars
    \/ \E key \in InternedKeys : GetOrInsert(key) /\ UNCHANGED notIndexMapVars

InitIndexMap ==
    /\ index_map = IndexMap_default
    /\ interned = [op |-> "default", key |-> Signature(<<>>, <<>>), index |-> 0,
                   before |-> IndexMap_default, after |-> IndexMap_default]
    /\ first_index = <<>>

(***************************************************************************)
(* sailar/src/builder/block.rs: the Block of the module builder, which     *)
(* checks that the registers it is given are its own.  A Block is known by *)
(* its block index; the Blocks here belong to one code definition.         *)
(***************************************************************************)
RegisterOwner(code_index, block_index) ==
    [code_index |-> code_index, block_index |-> block_index]

\* block::Error; BlockOk stands for Ok.
BlockOk == [kind |-> "None", register |-> 0, expected |-> 0, actual |-> 0]

RegisterOwnerMismatch(register, expected, actual) ==
    [kind |-> "RegisterOwnerMismatch", register |-> register,
     expected |-> expected.block_index, actual |-> actual.block_index]

Error_ResultCountMismatch(expected, actual) ==
    [kind |-> "ResultCountMismatch", register |-> 0, expected |-> expected, actual |-> actual]

\* Instructions of format::instruction_set the Block emits.
Instruction_Nop == [op |-> "Nop", registers |-> <<>>]

Instruction_ConstI == [op |-> "ConstI", registers |-> <<>>]

Instruction_Ret(result_indices) == [op |-> "Ret", registers |-> result_indices]

\* Block::new.  ok_rets counts the ret calls on the block that returned Ok.
Block_new(owner_index, index, input_count, expected_return_count) ==
    [owner_index |-> owner_index, index |-> index, input_count |-> input_count,
     expected_return_count |-> expected_return_count, register_index |-> 0,
     registers |-> <<>>, instructions |-> <<>>, ok_rets |-> 0]

\* Block::allocate_register: the block with the register allocated last.
allocate_register(this) ==
    [this EXCEPT !.registers = Append(@, [owner |-> RegisterOwner(this.owner_index, this.index),
                                           index |-> this.register_index]),
                 !.register_index = @ + 1]

\* Block::check_register
check_register(this, register) ==
    LET expected_owner == RegisterOwner(this.owner_index, this.index)
    IN  IF register.owner # expected_owner
        THEN RegisterOwnerMismatch(register.index, expected_owner, register.owner)
        ELSE BlockOk

\* Block::check_many_registers: the error of the first register that is not
\* the block's, or the indices of all of them.
check_many_registers(this, registers) ==
    LET bad == {i \in 1..Len(registers) : check_register(this, registers[i]) # BlockOk}
    IN  IF bad # {}
        THEN [error |-> check_register(this, registers[CHOOSE i \in bad : \A j \in bad : i <= j]),
              indices |-> <<>>]
        ELSE [error |-> BlockOk, indices |-> [i \in 1..Len(registers) |-> registers[i].index]]

\* Block::emit_raw
emit_raw(this, instruction) == [this EXCEPT !.instructions = Append(@, instruction)]

\* Block::ret: the block after the call and what the call returned.
Block_ret(this, results) ==
    LET checked == check_many_registers(this, results)
        actual_count == Len(checked.indices)
        emitted_ret == emit_raw(this, Instruction_Ret(checked.indices))
    IN  IF checked.error # BlockOk THEN [block |-> this, error |-> checked.error]
        ELSE IF actual_count = this.expected_return_count
             THEN [block |-> [emitted_ret EXCEPT !.ok_rets = @ + 1], error |-> BlockOk]
             ELSE [block |-> emitted_ret,
                   error |-> Error_ResultCountMismatch(this.expected_return_count, actual_count)]

\* Block::build: the instructions of the format::CodeBlock; the block is left
\* without instructions.
Block_build(this) ==
    [block |-> [this EXCEPT !.instructions = <<>>, !.ok_rets = 0],
     instructions |-> this.instructions]

\* The instructions of a built format::CodeBlock, with the number of ret
\* calls that had returned Ok on the block.
Built(instructions, ok_rets) == [instructions |-> instructions, ok_rets |-> ok_rets]

NotBuilt == Built(<<>>, 0)

\* What the last call on a block was given and what it did.
BlockLog(op, index, results, before, after, error, built) ==
    [op |-> op, index |-> index, results |-> results, before |-> before, after |-> after,
     error |-> error, built |-> built]

ExpectedReturnCounts == {0, 1}

\* The registers a caller can hold: those allocated by any of the blocks.
AllocatedRegisters == UNION {Range(builder_blocks[i].registers) : i \in DOMAIN builder_blocks}

\* A new block of the code definition, with the next block index.
NewBlock(expected_return_count) ==
    /\ Len(builder_blocks) < MaxBlocks
    /\ builder_blocks' =
           Append(builder_blocks,
                  Block_new(0, Len(builder_blocks), 0, expected_return_count))
    /\ block_log' = BlockLog("new", Len(builder_blocks), <<>>, <<>>, <<>>, BlockOk, NotBuilt)

\* Block::nop
BlockNop(i) ==
    /\ i \in DOMAIN builder_blocks
    /\ Len(builder_blocks[i].instructions) < MaxBlockInstructions
    /\ builder_blocks' = [builder_blocks EXCEPT ![i] = emit_raw(@, Instruction_Nop)]
    /\ block_log' = BlockLog("nop", i - 1, <<>>, builder_blocks[i].instructions,
                             builder_blocks'[i].instructions, BlockOk, NotBuilt)

\* Block::const_i
BlockConstI(i) ==
    /\ i \in DOMAIN builder_blocks
    /\ Len(builder_blocks[i].instructions) < MaxBlockInstructions
    /\ Len(builder_blocks[i].registers) < MaxBlockRegisters
    /\ builder_blocks' =
           [builder_blocks EXCEPT ![i] = allocate_register(emit_raw(@, Instruction_ConstI))]
    /\ block_log' = BlockLog("const_i", i - 1, <<>>, builder_blocks[i].instructions,
                             builder_blocks'[i].instructions, BlockOk, NotBuilt)

\* Block::ret
BlockRet(i, results) ==
    /\ i \in DOMAIN builder_blocks
    /\ Len(builder_blocks[i].instructions) < MaxBlockInstructions
    /\ \E result \in {Block_ret(builder_blocks[i], results)} :
           /\ builder_blocks' = [builder_blocks EXCEPT ![i] = result.block]
           /\ block_log' = BlockLog("ret", i - 1, results, builder_blocks[i].instructions,
                                    result.block.instructions, result.error, NotBuilt)

\* Block::build
BlockBuild(i) ==
    /\ i \in DOMAIN builder_blocks
    /\ \E result \in {Block_build(builder_blocks[i])} :
           /\ builder_blocks' = [builder_blocks EXCEPT ![i] = result.block]
           /\ block_log' = BlockLog("build", i - 1, <<>>, builder_blocks[i].instructions,
                                    <<>>, BlockOk,
                                    Built(result.instructions, builder_blocks[i].ok_rets))

NextBlock ==
    \/ \E count \in ExpectedReturnCounts : NewBlock(count) /\ UNCHANGED notBlockVars
    \/ \E i \in 1..MaxBlocks : BlockNop(i) /\ UNCHANGED notBlockVars
    \/ \E i \in 1..MaxBlocks : BlockConstI(i) /\ UNCHANGED notBlockVars
    \/ \E i \in 1..MaxBlocks, results \in SeqsUpTo(AllocatedRegisters, MaxValues) :
          BlockRet(i, results) /\ UNCHANGED notBlockVars
    \/ \E i \in 1..MaxBlocks : BlockBuild(i) /\ UNCHANGED notBlockVars

InitBlock ==
    /\ builder_blocks = <<>>
    /\ block_log = BlockLog("none", 0, <<>>, <<>>, <<>>, BlockOk, NotBuilt)

(***************************************************************************)
(* getmdl::loader::Module: the arenas and the by-index caches of the types *)
(* and methods of one allocated module.  A reference into a slice of the      *)
(* source is the position it points to, a reference into an arena is the   *)
(* number of the allocation, counted from 1.                               *)
(***************************************************************************)
\* format::Module, reduced to the definitions load_type_raw and
\* load_method_raw read: the types, and the owner index of every method.
FormatSource(type_count, owners) ==
    [defined_types |-> [i \in 1..type_count |-> [name |-> i - 1]],
     defined_methods |-> [i \in 1..Len(owners) |-> [owner |-> owners[i]]]]

FormatSources ==
    {FormatSource(type_count, owners) :
        type_count \in 0..MaxDefinedTypes,
        owners \in SeqsUpTo(0..MaxDefinedTypes, MaxDefinedMethods)}

NoLoadError == [error |-> "none", index |-> 0]

IndexOutOfBounds(index) == [error |-> "IndexOutOfBounds", index |-> index]

LoadOk(value) == [ok |-> TRUE, value |-> value, error |-> NoLoadError]

LoadErr(error) == [ok |-> FALSE, value |-> 0, error |-> error]

GetmdlModule_new(source) ==
    [source |-> source,
     type_arena |-> <<>>, loaded_types |-> <<>>,
     method_arena |-> <<>>, loaded_methods |-> <<>>]

\* <[T]>::get
slice_get(s, index) ==
    IF index < Len(s) THEN [some |-> TRUE, value |-> index] ELSE [some |-> FALSE, value |-> 0]

\* The conversion of read_index: an index is a u32, and every u32 has a usize
\* on the targets the loader is built for, so the conversion never fails here.
read_index(index) == LoadOk(index)

Type_new(source) == [source |-> source]

Method_new(owner, source) == [source |-> source, owner |-> owner]

RawLoad(result, module) == [result |-> result, module |-> module]

RECURSIVE load_raw(_, _, _, _, _)

\* The constructor closures of load_type_raw (table "defined_types") and of
\* load_method_raw (table "defined_methods"), which loads the owner first.
constructor(this, table, source) ==
    IF table = "defined_types"
    THEN RawLoad(LoadOk(Type_new(source)), this)
    ELSE \* self.load_type_raw(source.owner)?
         LET owner == load_raw(this, "loaded_types", "type_arena", "defined_types",
                               this.source.defined_methods[source + 1].owner)
         IN IF owner.result.ok
            THEN RawLoad(LoadOk(Method_new(owner.result.value, source)), owner.module)
            ELSE owner

\* A variant of load_raw that never looks at the occupied entry.
load_rawAllocatingAgain(this, lookup, arena, table, index) ==
    LET raw_index == read_index(index) IN
    IF ~raw_index.ok
    THEN RawLoad(LoadErr(IndexOutOfBounds(index)), this)
    ELSE LET source == slice_get(this.source[table], raw_index.value) IN
         IF source.some
         THEN LET constructed == constructor(this, table, source.value) IN
              IF constructed.result.ok
              THEN LET st == constructed.module
                       allocated == Len(st[arena]) + 1
                   IN RawLoad(LoadOk(allocated),
                             [st EXCEPT ![arena] = Append(@, constructed.result.value),
                                        ![lookup] = (raw_index.value :> allocated) @@ @])
              ELSE constructed
         ELSE RawLoad(LoadErr(IndexOutOfBounds(index)), this)

load_raw(this, lookup, arena, table, index) ==
    LET raw_index == read_index(index) IN
    IF ~raw_index.ok
    THEN RawLoad(LoadErr(IndexOutOfBounds(index)), this)
    ELSE IF raw_index.value \in DOMAIN this[lookup]
         THEN \* Entry::Occupied
              RawLoad(LoadOk(this[lookup][raw_index.value]), this)
         ELSE \* Entry::Vacant
              LET source == slice_get(this.source[table], raw_index.value) IN
              IF source.some
              THEN LET constructed == constructor(this, table, source.value) IN
                   IF constructed.result.ok
                   THEN LET st == constructed.module
                            allocated == Len(st[arena]) + 1
                        IN RawLoad(LoadOk(allocated),
                                  [st EXCEPT ![arena] = Append(@, constructed.result.value),
                                             ![lookup] = (raw_index.value :> allocated) @@ @])
                   ELSE constructed
              ELSE RawLoad(LoadErr(IndexOutOfBounds(index)), this)

load_type_raw(this, index) ==
    load_raw(this, "loaded_types", "type_arena", "defined_types", index)

load_method_raw(this, index) ==
    load_raw(this, "loaded_methods", "method_arena", "defined_methods", index)

RawLoaded(op, index, before, result) ==
    [op |-> op, index |-> index, before |-> before, result |-> result]

NoRawLoaded == RawLoaded("none", 0, GetmdlModule_new(FormatSource(0, <<>>)), LoadOk(0))

\* The indices callers pass: every position of the largest table, and one
\* position past it.
RawIndices == 0..MaxDefinedTypes

\* Loader::load_module_raw for a module that is not allocated yet
LoadModuleRaw(source) ==
    /\ getmdlModule' = GetmdlModule_new(source)
    /\ raw_loaded' = NoRawLoaded

LoadTypeRaw(index) ==
    \E loaded_type \in {load_type_raw(getmdlModule, index)} :
        /\ getmdlModule' = loaded_type.module
        /\ raw_loaded' = RawLoaded("load_type_raw", index, getmdlModule, loaded_type.result)

LoadMethodRaw(index) ==
    \E loaded_method \in {load_method_raw(getmdlModule, index)} :
        /\ getmdlModule' = loaded_method.module
        /\ raw_loaded' = RawLoaded("load_method_raw", index, getmdlModule, loaded_method.result)

NextGetmdl ==
    \/ \E source \in FormatSources : LoadModuleRaw(source) /\ UNCHANGED notGetmdlVars
    \/ \E index \in RawIndices : LoadTypeRaw(index) /\ UNCHANGED notGetmdlVars
    \/ \E index \in RawIndices : LoadMethodRaw(index) /\ UNCHANGED notGetmdlVars

InitGetmdl ==
    /\ getmdlModule = GetmdlModule_new(FormatSource(0, <<>>))
    /\ raw_loaded = NoRawLoaded

Init ==
    /\ InitBuilder /\ InitLoader /\ InitLoad /\ InitModule /\ InitPool /\ InitWire
    /\ InitIndexMap /\ InitBlock /\ InitGetmdl

Next == NextBuilder \/ NextLoader \/ NextLoad \/ NextModule \/ NextPool \/ NextWrite
            \/ NextWire \/ NextIndexMap \/ NextBlock \/ NextGetmdl

Spec == Init /\ [][Next]_vars

SpecBuilder == Init /\ [][NextBuilder]_vars

SpecLoader == Init /\ [][NextLoader]_vars

SpecLoad == Init /\ [][NextLoad]_vars

SpecModule == Init /\ [][NextModule]_vars

SpecPool == Init /\ [][NextPool]_vars

SpecWrite == Init /\ [][NextWrite]_vars

SpecWire == Init /\ [][NextWire]_vars

SpecIndexMap == Init /\ [][NextIndexMap]_vars

SpecBlock == Init /\ [][NextBlock]_vars

SpecGetmdl == Init /\ [][NextGetmdl]_vars

(***************************************************************************)
(* Properties of the code block builder (SpecBuilder).                     *)
(***************************************************************************)
ValidationErrorKinds ==
    {"EmptyBlock", "InvalidResultType", "ResultCountMismatch", "ExpectedType",
     "ArgumentCountMismatch", "ArgumentTypeMismatch"}

\* C2: emit_ret returns a block only if the values given are as many as the
\* builder's result types and have the same types position by position; for
\* any other values it returns a ValidationError and no block.
C2_EmitRetChecksArityAndTypes ==
    emitted.op = "emit_ret" =>
        /\ emitted.block.present <=> emitted.types = emitted.signature.result_types
        /\ ~emitted.block.present => emitted.error.kind \in ValidationErrorKinds

\* C3: emit_call returns Ok only if the arguments given are as many as the
\* callee's parameters and have the same types position by position; for any
\* other arguments it returns ArgumentCountMismatch{expected = parameter
\* count, actual = supplied count} or ArgumentTypeMismatch.
C3_EmitCallChecksArityAndTypes ==
    emitted.op = "emit_call" =>
        /\ emitted.error = NoError <=> emitted.types = emitted.signature.parameter_types
        /\ emitted.error # NoError =>
               \/ emitted.error.kind = "ArgumentTypeMismatch"
               \/ emitted.error =
                      ArgumentCountMismatch(Len(emitted.signature.parameter_types), Len(emitted.types))

IsTerminator(instruction) == instruction.op = "Ret"

RegisterOperands(block) ==
    {block.instructions[i].values[j].index :
        <<i, j>> \in {p \in (1..Len(block.instructions)) \X (1..MaxValues + 2) :
                          /\ p[2] <= Len(block.instructions[p[1]].values)
                          /\ block.instructions[p[1]].values[p[2]].kind = "IndexedRegister"}}

C8_ResolverOncePerIdentifier ==
    \A i, j \in 1..Len(resolver_log) :
        resolver_log[i][1] = resolver_log[j][1] => i = j

\* C8 (amended): once load_module(id) has succeeded, id keeps its handle for
\* good, and every later load_module(id) returns that handle without the
\* resolver being invoked; only loads that failed are resolved again.
C8_CachedModuleNeverResolvedAgain ==
    [][\A n \in DOMAIN module_lookup :
          /\ n \in DOMAIN module_lookup'
          /\ module_lookup'[n] = module_lookup[n]
          /\ (loaded'.op = "load_module" /\ loaded'.name = n) =>
                /\ loaded'.error = "None"
                /\ loaded'.module = module_lookup[n]
                /\ resolver_log' = resolver_log]_vars

\* A load that is answered from the cache (its handle is not the newest one
\* of the arena) for an identifier whose first resolution had failed.
C8_Witness ==
    /\ loaded.op = "load_module"
    /\ loaded.error = "None"
    /\ loaded.module < Len(resolved_modules)
    /\ \E i \in 1..Len(resolver_log) : resolver_log[i] = <<loaded.name, "None">>
    /\ \E i \in 1..Len(resolver_log) : resolver_log[i] = <<loaded.name, "Module">>

\* C9: lookup_function returns the matching function of every module the
\* loader has loaded, the root application included, and lookup_module finds
\* every loaded module by its identifier.
C9_LookupCoversEveryLoadedModule ==
    /\ loaded.op = "lookup_function" =>
          loaded.functions =
              UNION {Module_lookup_function(h, loaded.symbol) : h \in 1..Len(resolved_modules)}
    /\ loaded.op = "lookup_module" =>
          \A h \in 1..Len(resolved_modules) :
              resolved_modules[h].identifier = loaded.name => loaded.module # 0

(***************************************************************************)
(* Properties of sailar_load (SpecLoad).                                   *)
(***************************************************************************)
SupportedTags == {"MetadataField", "Identifier", "FunctionDefinition"}

DuplicateSymbols(records) ==
    {to_symbol(records[i]).name : i \in {k \in 1..Len(records) :
        /\ records[k].tag = "FunctionDefinition"
        /\ to_symbol(records[k]).some
        /\ \E j \in 1..(k - 1) :
              /\ records[j].tag = "FunctionDefinition"
              /\ to_symbol(records[j]) = to_symbol(records[k])}}

\* C6: from_source of a record stream in which two function definitions have
\* the same symbol returns a DuplicateSymbolError as an error value and does
\* not panic.
C6_DuplicateSymbolIsAnErrorValue ==
    (/\ sourced.outcome # "None"
     /\ \A i \in 1..Len(sourced.records) : sourced.records[i].tag \in SupportedTags
     /\ DuplicateSymbols(sourced.records) # {}) =>
        /\ load_panic = "-"
        /\ sourced.outcome = "DuplicateSymbolError"

\* C7: the resolution of a lazy cell (body, signature, template) runs at most
\* once; once a cell holds a result it keeps it, and every later access
\* returns that result without running the resolution, also after the module
\* has been dropped.
C7_LazyCellsResolveOnce ==
    [][/\ \A d \in 1..Len(definitions) :
             /\ resolutions'.body[d] <= 1
             /\ resolutions'.signature[d] <= 1
             /\ definitions[d].body.state # "Uninit" =>
                   /\ definitions'[d].body = definitions[d].body
                   /\ resolutions'.body[d] = resolutions.body[d]
                   /\ (accessed'.op = "body" /\ accessed'.index = d) =>
                         accessed'.result = definitions[d].body
             /\ definitions[d].signature.state # "Uninit" =>
                   /\ definitions'[d].signature = definitions[d].signature
                   /\ resolutions'.signature[d] = resolutions.signature[d]
                   /\ (accessed'.op = "signature" /\ accessed'.index = d) =>
                         accessed'.result = definitions[d].signature
       /\ \A i \in 1..Len(instantiations) :
             /\ resolutions'.template[i] <= 1
             /\ instantiations[i].template.state # "Uninit" =>
                   /\ instantiations'[i].template = instantiations[i].template
                   /\ resolutions'.template[i] = resolutions.template[i]
                   /\ (accessed'.op = "template" /\ accessed'.index = i) =>
                         accessed'.result = instantiations[i].template]_vars

\* The body of a definition is accessed after the module has been dropped
\* and is still the code block resolved while the module was alive.
C7_Witness ==
    /\ accessed.op = "body"
    /\ accessed.module_state = "Dropped"
    /\ accessed.result.state = "Ok"
    /\ resolutions.body[accessed.index] = 1
    /\ \E i \in 1..Len(instantiations) : instantiations[i].template.state = "Err"

(***************************************************************************)
(* Properties of sailar::module (SpecModule).                              *)
(***************************************************************************)
\* C1: parsing the bytes written for a module gives back the module: the
\* same format version, name, version numbers, length size and function
\* definitions.
C1_ParseInvertsWrite ==
    (parsed.op = "parse" /\ parsed.minor = parsed.written.format_version.minor) =>
        /\ parsed.ok
        /\ parsed.module.format_version = parsed.written.format_version
        /\ parsed.module.identifier = parsed.written.identifier
        /\ parsed.module.length_size = parsed.written.length_size
        /\ parsed.module.function_definitions = parsed.written.function_definitions

\* C5: add_function with a symbol the module already defines returns a
\* DuplicateSymbolError naming the symbol and leaves the module as it was
\* (symbols, function definitions, length size, cached contents); and no two
\* function definitions of a module ever share a symbol.
C5_DuplicateSymbolLeavesModuleUnchanged ==
    /\ (added.op = "add_function" /\ added.input.symbol \in added.before.symbols) =>
          /\ added.error = "DuplicateSymbolError"
          /\ added.error_symbol = added.input.symbol
          /\ added.after = added.before
    /\ \A i, j \in 1..Len(sailarModule.function_definitions) :
          sailarModule.function_definitions[i].function.symbol =
              sailarModule.function_definitions[j].function.symbol => i = j

\* A duplicate is refused on a module whose contents are cached and whose
\* length size the library name of the refused function would have raised.
C5_Witness ==
    /\ added.op = "add_function"
    /\ added.error = "DuplicateSymbolError"
    /\ added.before.contents.some
    /\ added.before.length_size = "One"
    /\ added.input.body.kind = "Foreign"
    /\ Len(added.input.body.library_name) > U8Max
    /\ Len(added.before.function_definitions) = 2

\* C10: the parser accepts a module that declares format version 0.12 and
\* rejects the same module declaring format version 0.11.
C10_MinimumVersionAcceptedOneBelowRejected ==
    parsed.op = "parse" =>
        /\ parsed.minor = MINIMUM_SUPPORTED.minor => parsed.ok
        /\ parsed.minor = MINIMUM_SUPPORTED.minor - 1 => ~parsed.ok

\* C11: every value the writer passes to write_length while serializing a
\* module built with Module::new and add_function calls is representable in the
\* module's length_size, so the "attempt to write invalid length value" branch
\* of the length writer is never reached.
C11_WriterNeverWritesInvalidLength ==
    module_panic /= "attempt to write invalid length value"

\* The length sizes narrower than a length size.
NarrowerSizes(size) == {s \in {"One", "Two", "Four"} : SizeRank(s) < SizeRank(size)}

\* C12: the length size emitted in the header of a module is the smallest of
\* One, Two and Four in which every length and index the writer writes for the
\* module is representable: writing with it reaches no invalid length, and
\* writing the module with any narrower size would.
C12_EmittedLengthSizeIsSmallestThatFits ==
    (sailarModule.exists /\ (sailarModule.contents.some \/ module_panic /= "-")) =>
        /\ ~Panicked(write(sailarModule, key_order, NoPool).bytes)
        /\ \A s \in NarrowerSizes(sailarModule.length_size) :
               Panicked(write([sailarModule EXCEPT !.length_size = s], key_order, NoPool).bytes)

(***************************************************************************)
(* More properties of sailar::module (SpecModule).                         *)
(***************************************************************************)
\* The values Module construction and add_function have passed to
\* resize_to_fit for a module.
ValuesSeen(this) ==
    {Len(this.identifier.name), Len(this.identifier.version)}
        \cup Range(this.identifier.version)
        \cup UNION {LET d == this.function_definitions[i]
                    IN  {Len(d.function.symbol), Len(d.function.signature.result_types),
                         Len(d.function.signature.parameter_types)}
                            \cup (IF d.definition.body.kind = "Foreign"
                                  THEN {Len(d.definition.body.library_name),
                                        Len(d.definition.body.entry_point_name)}
                                  ELSE {}) :
                    i \in 1..Len(this.function_definitions)}

\* The largest fit of a set of values: One up to 255, Two up to 65535, else Four.
LargestFit(values) ==
    IF \E v \in values : v > 65535 THEN "Four"
    ELSE IF \E v \in values : v > 255 THEN "Two"
    ELSE "One"

NamedDuplicates(records) ==
    \E j, k \in 1..Len(records) :
        /\ j < k
        /\ records[j].tag = "FunctionDefinition" /\ records[k].tag = "FunctionDefinition"
        /\ records[j].export # "Hidden" /\ records[k].export # "Hidden"
        /\ records[j].symbol = records[k].symbol

\* The names a caller can look up, with the placeholder of a Hidden export.
LookupNames == {"main", "helper", "-"}

\* C17: only definitions whose export is Private(name) or Export(name) are
\* entered in the symbol lookup of a loaded module.  A Hidden definition adds
\* no entry, is never the cause of a duplicate symbol, and is not found by
\* SymbolLookup::get, however many hidden definitions the module has.
C17_OnlyNamedDefinitionsAreIndexed ==
    /\ loadedModule.state # "None" =>
           /\ \A i \in 1..Len(definitions) :
                  definitions[i].definition.export # "Hidden" =>
                      SymbolLookup_get(loadedModule.symbols, definitions[i].definition.symbol) = i
           /\ \A name \in LookupNames :
                  LET found == SymbolLookup_get(loadedModule.symbols, name)
                  IN  found # 0 =>
                          /\ definitions[found].definition.export \in {"Private", "Export"}
                          /\ definitions[found].definition.symbol = name
           /\ DOMAIN loadedModule.symbols \subseteq LookupNames
           /\ Cardinality(DOMAIN loadedModule.symbols) =
                  Cardinality({i \in 1..Len(definitions) :
                                  definitions[i].definition.export # "Hidden"})
    /\ load_panic = "TODO: handle duplicate symbol error" => NamedDuplicates(sourced.records)

\* A module loaded from two Hidden definitions: both are kept, none is indexed.
C17_Witness ==
    /\ sourced.outcome = "Ok"
    /\ loadedModule.state = "Loaded"
    /\ Len(definitions) = 2
    /\ \A i \in 1..2 : definitions[i].definition.export = "Hidden"
    /\ DOMAIN loadedModule.symbols = {}
    /\ load_panic = "-"

(***************************************************************************)
(* More properties of the code block builder (SpecBuilder).                *)
(***************************************************************************)
ArithmeticOperations == {"emit_add", "emit_add_flagged", "emit_add_saturating"}

\* C15: emit_add, emit_add_flagged and emit_add_saturating check their operands
\* in this order: if x is not of an integer type the call fails with
\* ExpectedType{actual = x's type, kind = ExpectedInteger}; otherwise if y's
\* type differs from x's it fails with ExpectedType{actual = y's type, kind =
\* Expected(x's type)}; otherwise it appends one instruction and returns a new
\* temporary of x's type.  A failing call appends and defines nothing.
C15_ArithmeticChecksOperandsInOrder ==
    [][emitted'.op \in ArithmeticOperations =>
          LET x_type == emitted'.types[1]
              y_type == emitted'.types[2]
          IN  IF ~IsInteger(x_type)
              THEN /\ emitted'.error = ExpectedType(x_type, "ExpectedInteger")
                   /\ UNCHANGED <<instruction_buffer, temporary_buffer>>
              ELSE IF y_type # x_type
              THEN /\ emitted'.error = ExpectedType(y_type, x_type)
                   /\ UNCHANGED <<instruction_buffer, temporary_buffer>>
              ELSE /\ emitted'.error = NoError
                   /\ Len(instruction_buffer') = Len(instruction_buffer) + 1
                   /\ SubSeq(instruction_buffer', 1, Len(instruction_buffer)) = instruction_buffer
                   /\ Last(instruction_buffer').op = "AddI"
                   /\ Len(temporary_buffer') > Len(temporary_buffer)
                   /\ temporary_buffer'[Len(temporary_buffer) + 1] =
                          [index |-> Len(temporary_buffer), value_type |-> x_type]]_vars

\* An emit_add of an integer x and a y of another type is refused for y.
C15_Witness ==
    /\ emitted.op = "emit_add"
    /\ emitted.types = <<"S32", "F32">>
    /\ emitted.error = ExpectedType("F32", "S32")

\* C16: a validation error does not damage the BuilderCache.  Whatever an
\* earlier builder left in the cache when it was dropped or failed, a builder
\* obtained from the cache starts with no instructions, no temporaries and
\* exactly the input registers given to it; the first temporary it defines has
\* index 0; and the Block it finalizes has the instructions, temporaries and
\* inputs of this builder only.
C16_NewBuilderStartsClean ==
    /\ [][emitted'.op = "builder" =>
             /\ instruction_buffer' = <<>>
             /\ temporary_buffer' = <<>>
             /\ input_buffer' =
                    [i \in 1..Len(emitted'.signature.parameter_types) |->
                        [index |-> i - 1, value_type |-> emitted'.signature.parameter_types[i]]]]_vars
    /\ [][(emitted.op = "builder" /\ temporary_buffer' # <<>>) =>
             temporary_buffer'[1].index = 0]_vars
    /\ [][(emitted.op = "builder" /\ emitted'.block.present) =>
             /\ emitted'.block.instructions = <<Last(emitted'.block.instructions)>>
             /\ emitted'.block.temporary_types = <<>>
             /\ emitted'.block.input_types = emitted.signature.parameter_types]_vars
    /\ [](emitted.block.present =>
             /\ emitted.block.instructions = instruction_buffer
             /\ Len(emitted.block.temporary_types) = Len(temporary_buffer)
             /\ Len(emitted.block.input_types) = Len(input_buffer))

\* A builder obtained after an earlier builder of the same cache left an
\* instruction and two temporaries behind.
C16_Witness ==
    /\ emitted.op = "builder"
    /\ emitted.stale = [instructions |-> 1, temporaries |-> 2]
    /\ emitted.signature.parameter_types = <<"S32">>
    /\ builder.active
    /\ instruction_buffer = <<>>
    /\ temporary_buffer = <<>>

(***************************************************************************)
(* Properties of the buffer pool (SpecPool).                               *)
(***************************************************************************)
RentOperations == {"rent", "rent_with_capacity", "rent_with_length"}

\* C14: after any sequence of rents, writes into rented buffers and drops on
\* one Pool, a buffer returned by rent() has length 0, one returned by
\* rent_with_capacity(n) has length 0 and capacity at least n, one returned by
\* rent_with_length(n) has length n and only zero bytes, and a dropped buffer
\* is put back into the pool, where the next rent reuses its storage: the
\* capacity is greater than 0 after a written buffer was dropped.
C14_RentedBuffersClearedAndReused ==
    /\ rent_log.op = "rent" => Len(rent_log.buffer.bytes) = 0
    /\ rent_log.op = "rent_with_capacity" =>
           /\ Len(rent_log.buffer.bytes) = 0
           /\ rent_log.buffer.capacity >= rent_log.argument
    /\ rent_log.op = "rent_with_length" =>
           /\ Len(rent_log.buffer.bytes) = rent_log.argument
           /\ \A i \in 1..Len(rent_log.buffer.bytes) : rent_log.buffer.bytes[i] = 0
    /\ rent_log.op = "drop" => pool_buffers = Append(rent_log.before, rent_log.buffer)
    /\ (rent_log.op \in RentOperations /\ rent_log.before /= <<>>) =>
           /\ pool_buffers = Front(rent_log.before)
           /\ rent_log.buffer.capacity >= Last(rent_log.before).capacity
           /\ Last(rent_log.before).bytes /= <<>> => rent_log.buffer.capacity > 0

\* A rent() that reuses a buffer that was written and then dropped.
C14_Witness ==
    /\ rent_log.op = "rent"
    /\ rent_log.before /= <<>>
    /\ Last(rent_log.before).bytes = <<1, 1>>
    /\ rent_log.buffer.bytes = <<>>
    /\ rent_log.buffer.capacity > 0

(***************************************************************************)
(* Properties of writing a module with a buffer pool (SpecWrite).          *)
(***************************************************************************)
\* C13: writing the same Module twice, with or without a buffer pool and
\* whatever the pool holds from earlier writes, produces the same bytes: a
\* Module::write of the module written last writes the bytes written then, and
\* the contents raw_contents caches for that module are those bytes too.
C13_WriteIsDeterministic ==
    /\ [][(write_log.op = "write" /\ write_log'.module = write_log.module) =>
             write_log'.bytes = write_log.bytes]_vars
    /\ []((/\ write_log.op = "write"
           /\ sailarModule.contents.some
           /\ write_log.module = [sailarModule EXCEPT !.contents = NoContents]) =>
              sailarModule.contents.bytes = write_log.bytes)

\* A module with two functions written with the pool by Module::write and then
\* by raw_contents, which found the buffers of the first write in the pool
\* and left the buffer it wrote the module to as the last one.
C13_Witness ==
    /\ write_log.op = "write"
    /\ write_log.use_pool
    /\ Len(write_log.module.function_definitions) = 2
    /\ sailarModule.contents.some
    /\ write_log.module = [sailarModule EXCEPT !.contents = NoContents]
    /\ module_pool /= <<>>
    /\ Last(module_pool).bytes = sailarModule.contents.bytes
    /\ sailarModule.contents.bytes = write_log.bytes

(***************************************************************************)
(* Properties of the writer's and the parser's Wrapper (SpecWire).         *)
(***************************************************************************)
\* The byte at position i (from 1) of the little-endian form of a number.
LittleEndianByte(n, i) == (n \div (256 ^ (i - 1))) % 256

\* C19: for every length size l and every length n representable in l, the
\* parser's length reader for l, applied to the bytes write_length produces
\* for n under l, returns n and consumes exactly the byte count of l (1, 2 or
\* 4 bytes), which are n in little-endian order.
C19_ReadLengthInvertsWriteLength ==
    /\ (wire.op = "write_length" \/ wire.op = "read_length") =>
           /\ FitsLengthSize(wire.size, wire.length)
           /\ Len(wire.bytes) = byte_count(wire.size)
           /\ \A i \in 1..Len(wire.bytes) : wire.bytes[i] = LittleEndianByte(wire.length, i)
    /\ wire.op = "read_length" =>
           /\ wire.ok
           /\ wire.read_length = wire.length
           /\ wire.consumed = byte_count(wire.size)
    /\ (wire.op = "panic" /\ wire.identifier = <<>>) => ~FitsLengthSize(wire.size, wire.length)

\* 0x12345678 written in four bytes and read back.
C19_Witness ==
    /\ wire.op = "read_length"
    /\ wire.size = "Four"
    /\ wire.length = 305419896
    /\ wire.bytes = <<120, 86, 52, 18>>
    /\ wire.read_length = 305419896
    /\ wire.consumed = 4

\* C20: for every valid identifier (not empty, no NUL byte), also one of a
\* single byte, read_identifier applied to the bytes write_identifier produces
\* returns the same identifier and consumes exactly the length prefix and the
\* identifier's bytes.
C20_ReadIdentifierInvertsWriteIdentifier ==
    wire.op = "read_identifier" =>
        /\ wire.ok
        /\ wire.read_identifier = wire.identifier
        /\ wire.consumed = byte_count(wire.size) + Len(wire.identifier)

(***************************************************************************)
(* The layout of the bytes written for a module (SpecModule).              *)
(***************************************************************************)
\* The numbers of a vector, each in the bytes of a length size.
RECURSIVE NumbersInSize(_, _)
NumbersInSize(size, numbers) ==
    IF numbers = <<>> THEN <<>>
    ELSE to_le_bytes(Head(numbers), byte_count(size)) \o NumbersInSize(size, Tail(numbers))

\* The header of a module as the format lays it out: the name's length and
\* bytes, the number of version numbers, and each version number.
HeaderLayout(size, identifier) ==
    to_le_bytes(Len(identifier.name), byte_count(size)) \o identifier.name
        \o to_le_bytes(Len(identifier.version), byte_count(size))
        \o NumbersInSize(size, identifier.version)

\* The bytes of a module up to the end of its header.
PreambleLayout(this) ==
    MAGIC \o <<this.format_version.major, this.format_version.minor,
               LengthSizeTag(this.length_size)>>
          \o to_le_bytes(Len(HeaderLayout(this.length_size, this.identifier)),
                         byte_count(this.length_size))
          \o HeaderLayout(this.length_size, this.identifier)

\* C21: the bytes written for a module start with the magic, the format major
\* and minor bytes and the length-size tag, then the header: its byte size,
\* the name's length and bytes, the number of version numbers, and each
\* version number, every integer in the module's length size; the version
\* count field is the number of version numbers that follow.
C21_HeaderLayout ==
    sailarModule.contents.some =>
        /\ Len(sailarModule.contents.bytes) >= Len(PreambleLayout(sailarModule))
        /\ SubSeq(sailarModule.contents.bytes, 1, Len(PreambleLayout(sailarModule))) =
               PreambleLayout(sailarModule)

\* The indices in a table of the types of a list, each in a length size.
RECURSIVE TypeIndicesLayout(_, _, _)
TypeIndicesLayout(size, types, type_lookup) ==
    IF types = <<>> THEN <<>>
    ELSE to_le_bytes(type_lookup[Head(types)], byte_count(size))
             \o TypeIndicesLayout(size, Tail(types), type_lookup)

\* A function signature as the format lays it out: the counts of its result
\* and parameter types, then the index of each type in the type signatures.
SignatureLayout(size, signature, type_lookup) ==
    to_le_bytes(Len(signature.result_types), byte_count(size))
        \o to_le_bytes(Len(signature.parameter_types), byte_count(size))
        \o TypeIndicesLayout(size, signature.result_types \o signature.parameter_types, type_lookup)

\* A code block as the format lays it out: the counts of its input, result and
\* temporary types, the index of each type, then its instructions with their
\* byte size and count.
BlockLayout(size, block, type_lookup) ==
    to_le_bytes(Len(block.input_types), byte_count(size))
        \o to_le_bytes(Len(block.result_types), byte_count(size))
        \o to_le_bytes(Len(block.temporary_types), byte_count(size))
        \o TypeIndicesLayout(
               size, block.input_types \o block.result_types \o block.temporary_types, type_lookup)
        \o write_buffer_and_count(size, Len(block.instructions),
                                  write_instructions(size, block.instructions))

\* The entries of a table one after the other, in the order of their indices.
RECURSIVE SectionLayout(_, _, _, _)
SectionLayout(Entry(_, _, _), size, keys, type_lookup) ==
    IF keys = <<>> THEN <<>>
    ELSE Entry(size, Head(keys), type_lookup) \o SectionLayout(Entry, size, Tail(keys), type_lookup)

IdentifierLayout(size, identifier, type_lookup) ==
    to_le_bytes(Len(identifier), byte_count(size)) \o identifier

TypeSignatureLayout(size, type, type_lookup) == <<TypeCode(type)>>

\* C22: for each index map of the writer (identifiers, code blocks, function
\* signatures, type signatures), the entry emitted at position k of its section
\* is the entry get_or_insert gave index k, so that every index written inline
\* refers to the entry at that position.
C22_SectionsEmittedInIndexOrder ==
    sailarModule.contents.some =>
        \A st \in {write_buffers(sailarModule, key_order, NoPool)} :
            LET size == sailarModule.length_size
                type_lookup == st.type_signature_lookup
            IN  /\ st.identifiers.bytes =
                       SectionLayout(IdentifierLayout, size, KeysByIndex(st.identifier_lookup),
                                     type_lookup)
                /\ st.type_signatures.bytes =
                       SectionLayout(TypeSignatureLayout, size, KeysByIndex(type_lookup), type_lookup)
                /\ st.function_signature_buffer.bytes =
                       SectionLayout(SignatureLayout, size,
                                     KeysByIndex(st.function_signature_lookup), type_lookup)
                /\ st.code_block_buffer.bytes =
                       SectionLayout(BlockLayout, size, KeysByIndex(st.code_block_lookup),
                                     type_lookup)

\* The entry count write_output writes for a table.
WrittenCount(st, table) ==
    CASE table = "identifier" -> IndexMap_len(st.identifier_lookup)
      [] table = "type_signature" -> IndexMap_len(st.type_signature_lookup)
      [] table = "function_signature" -> IndexMap_len(st.function_signature_lookup)
      [] table = "code_block" -> IndexMap_len(st.code_block_lookup)

\* C23: in the bytes the writer emits for a module, every index written inline
\* (the function signature index and the code block index of a function
\* definition, the identifier index of a library name, the type signature
\* indices of a function signature or code block) is smaller than the entry
\* count written for the section it refers to.
C23_InlineIndicesWithinTheirTables ==
    sailarModule.contents.some =>
        \A st \in {write_buffers(sailarModule, key_order, NoPool)} :
            \A written \in st.indices :
                /\ written.index >= 0
                /\ written.index < WrittenCount(st, written.table)

\* A module written with a defined and a foreign function, two function
\* signatures, and an index other than 0 written for each of them.
C23_Witness ==
    /\ sailarModule.contents.some
    /\ Len(sailarModule.function_definitions) = 2
    /\ \E i, j \in 1..2 :
          /\ sailarModule.function_definitions[i].definition.body.kind = "Defined"
          /\ sailarModule.function_definitions[j].definition.body.kind = "Foreign"
    /\ \A st \in {write_buffers(sailarModule, key_order, NoPool)} :
          /\ WrittenIndex("function_signature", 1) \in st.indices
          /\ WrittenIndex("code_block", 0) \in st.indices
          /\ WrittenIndex("identifier", 0) \in st.indices
          /\ \E written \in st.indices : written.table = "type_signature"

(***************************************************************************)
(* Properties of lookup::IndexMap (SpecIndexMap).                          *)
(***************************************************************************)
\* The indices stored in a map.
StoredIndices(lookup) == {lookup[key] : key \in DOMAIN lookup}

\* C24: over any sequence of get_or_insert calls on an IndexMap, a key equal to
\* one passed before gets the index it got the first time and the map does not
\* grow; a new key gets index len() and the map grows by one; so the indices
\* given are exactly 0..len()-1, without gaps or repeats, and never change.
C24_InterningIsIdempotentAndDense ==
    /\ interned.op = "get_or_insert" =>
          /\ interned.index = first_index[interned.key]
          /\ interned.after[interned.key] = interned.index
          /\ interned.key \in DOMAIN interned.before =>
                 interned.after = interned.before
          /\ interned.key \notin DOMAIN interned.before =>
                 /\ interned.index = IndexMap_len(interned.before)
                 /\ IndexMap_len(interned.after) = IndexMap_len(interned.before) + 1
                 /\ DOMAIN interned.after = DOMAIN interned.before \cup {interned.key}
                 /\ \A key \in DOMAIN interned.before :
                        interned.after[key] = interned.before[key]
    /\ StoredIndices(index_map) = 0..(IndexMap_len(index_map) - 1)
    /\ \A a, b \in DOMAIN index_map : index_map[a] = index_map[b] => a = b
    /\ DOMAIN first_index = DOMAIN index_map
    /\ \A key \in DOMAIN index_map : index_map[key] = first_index[key]

\* The key passed third is passed again once a fourth key is in the map: it
\* gets index 2 again and the map keeps its four entries.
C24_Witness ==
    /\ interned.op = "get_or_insert"
    /\ interned.key \in DOMAIN interned.before
    /\ interned.index = 2
    /\ IndexMap_len(interned.before) = 4
    /\ IndexMap_len(index_map) = 4

(***************************************************************************)
(* More properties of the code block builder (SpecBuilder).                *)
(***************************************************************************)
\* Instruction::return_count: the temporaries an instruction of the builder
\* introduces.
return_count(instruction) ==
    CASE instruction.op \in {"Nop", "Break", "Ret"} -> 0
      [] instruction.op = "AddI" -> IF instruction.overflow = "Flag" THEN 2 ELSE 1

RECURSIVE SumOfReturnCounts(_)
SumOfReturnCounts(instructions) ==
    IF instructions = <<>> THEN 0
    ELSE return_count(Head(instructions)) + SumOfReturnCounts(Tail(instructions))

\* C25: in every block the builder finishes, the number of temporary registers
\* is the sum over the block's instructions of the temporaries each of them
\* produces: none for Nop, Break and Ret, one for integer arithmetic that
\* ignores or saturates overflow, two for flagged integer arithmetic, and the
\* callee's result count for a Call.
C25_TemporariesMatchInstructions ==
    (emitted.op = "emit_ret" /\ emitted.block.present) =>
        Len(emitted.block.temporary_types) = SumOfReturnCounts(emitted.block.instructions)

\* The operations of a builder that emit an instruction and can fail.
EmitOperations == {"emit_add", "emit_add_flagged", "emit_add_saturating", "emit_call"}

\* C26: when emit_add, emit_add_flagged, emit_add_saturating or emit_call
\* returns a ValidationError, the builder is as it was before the call: no
\* instruction was appended and no temporary register was defined, so the
\* temporaries defined afterwards get the indices they would have had without
\* the failed call.
C26_FailedEmissionLeavesBuilderUnchanged ==
    [][(emitted'.op \in EmitOperations /\ emitted'.error # NoError) =>
           UNCHANGED <<instruction_buffer, temporary_buffer, input_buffer, value_buffer,
                       builder>>]_vars

\* A call refused for the type of its argument on a builder that already
\* holds an addition and its temporary, which stay as they were.
C26_Witness ==
    /\ emitted.op = "emit_call"
    /\ emitted.error.kind = "ArgumentTypeMismatch"
    /\ builder.active
    /\ Len(instruction_buffer) = 1
    /\ instruction_buffer[1].op = "AddI"
    /\ Len(temporary_buffer) = 1

(***************************************************************************)
(* The cached contents of a module (SpecModule).                           *)
(***************************************************************************)
\* C27: after any interleaving of add_function and raw_contents calls on a
\* module built with Module::new, raw_contents returns the bytes write produces
\* for the module as it is: an add_function that succeeds discards the cached
\* bytes, one that fails leaves them, and a raw_contents call that finds bytes
\* cached returns them without serializing the module again.
C27_RawContentsFollowTheModule ==
    /\ sailarModule.contents.some =>
           sailarModule.contents.bytes = write(sailarModule, key_order, NoPool).bytes
    /\ (added.op = "add_function" /\ added.error = "None") => ~added.after.contents.some
    /\ (added.op = "add_function" /\ added.error # "None") =>
           added.after.contents = added.before.contents
    /\ (contents_log.op = "raw_contents" /\ module_panic = "-") =>
           /\ contents_log.serialized <=> ~contents_log.before.some
           /\ contents_log.before.some => contents_log.bytes = contents_log.before.bytes
           /\ sailarModule.contents = SomeContents(contents_log.bytes)

\* The module of two functions is serialized, an add_function of a symbol it
\* has is refused, and the next raw_contents returns the cached bytes.
C27_Witness ==
    /\ contents_log.op = "raw_contents"
    /\ ~contents_log.serialized
    /\ contents_log.before.some
    /\ contents_log.bytes = write(sailarModule, key_order, NoPool).bytes
    /\ Len(sailarModule.function_definitions) = 2
    /\ added.error = "DuplicateSymbolError"
    /\ added.before.contents.some

(***************************************************************************)
(* More properties of the sailar_get loader (SpecLoader).                  *)
(***************************************************************************)
\* A load_module that has just returned an error.
LoadFailed(log) == log.op = "load_module" /\ log.error # "None"

\* C28: when load_module(id) fails, because the resolver returns an error or
\* no module (ModuleNotFound), the module cache is as before: no entry for id
\* is added, lookup_module(id) still returns None, the modules loaded before
\* are still returned by lookup_module, and a later load_module(id) asks the
\* resolver again.
C28_FailedLoadLeavesCacheUnchanged ==
    /\ [][LoadFailed(loaded') =>
              /\ UNCHANGED <<module_lookup, resolved_modules>>
              /\ loaded'.name \notin DOMAIN module_lookup'
              /\ loaded'.module = 0]_vars
    /\ [][loaded'.op = "lookup_module" =>
              loaded'.module = IF loaded'.name \in DOMAIN module_lookup
                               THEN module_lookup[loaded'.name] ELSE 0]_vars
    /\ [][(LoadFailed(loaded) /\ loaded'.op = "lookup_module" /\ loaded'.name = loaded.name) =>
              loaded'.module = 0]_vars
    /\ [][(LoadFailed(loaded) /\ loaded'.op = "load_module" /\ loaded'.name = loaded.name) =>
              /\ Len(resolver_log') = Len(resolver_log) + 1
              /\ resolver_log'[Len(resolver_log')][1] = loaded.name]_vars

\* A module is not found by the resolver although it was asked for it before,
\* while another module, loaded in between, stays in the cache.
C28_Witness ==
    /\ LoadFailed(loaded)
    /\ loaded.error = "ModuleNotFound"
    /\ loaded.name \notin DOMAIN module_lookup
    /\ DOMAIN module_lookup # {}
    /\ Len(resolver_log) = 3
    /\ resolver_log[1] = <<loaded.name, "Error">>
    /\ resolver_log[2][2] = "Module"
    /\ resolver_log[3] = <<loaded.name, "None">>

(***************************************************************************)
(* Properties of the Block of the module builder (SpecBlock).              *)
(***************************************************************************)
\* The Ret instructions among the instructions of a block.
RetInstructions(instructions) ==
    {i \in 1..Len(instructions) : instructions[i].op = "Ret"}

\* C29: when Block::ret returns an error (RegisterOwnerMismatch for a register
\* allocated by another block, ResultCountMismatch when the number of
\* registers is not expected_return_count), the instructions of the block are
\* as before the call: no Ret was appended, so the block built later holds a
\* Ret only for the ret calls that returned Ok.
C29_FailedRetAppendsNothing ==
    /\ (block_log.op = "ret" /\ block_log.error # BlockOk) =>
           block_log.after = block_log.before
    /\ block_log.op = "build" =>
           Cardinality(RetInstructions(block_log.built.instructions)) = block_log.built.ok_rets

(***************************************************************************)
(* Properties of the by-index caches of a getmdl module (SpecGetmdl).      *)
(***************************************************************************)
\* Every object of the arena was constructed from another definition.
ConstructedAtMostOnce(arena) ==
    \A p, q \in 1..Len(arena) : arena[p].source = arena[q].source => p = q

\* The last call left every cache entry it found as it was.
CacheKept(lookup) ==
    \A i \in DOMAIN raw_loaded.before[lookup] :
        /\ i \in DOMAIN getmdlModule[lookup]
        /\ getmdlModule[lookup][i] = raw_loaded.before[lookup][i]

\* The last call returned the object the cache holds for its index.
ReturnedTheCached(lookup) ==
    /\ raw_loaded.result.ok
    /\ raw_loaded.index \in DOMAIN getmdlModule[lookup]
    /\ raw_loaded.result.value = getmdlModule[lookup][raw_loaded.index]

\* The last call returned IndexOutOfBounds(index) and changed nothing.
FailedOutOfBounds(index) ==
    /\ raw_loaded.result = LoadErr(IndexOutOfBounds(index))
    /\ getmdlModule = raw_loaded.before

InTable(table, index) == index < Len(getmdlModule.source[table])

OwnerOf(index) == getmdlModule.source.defined_methods[index + 1].owner

CachesKeepTheirObjects ==
    /\ ConstructedAtMostOnce(getmdlModule.type_arena)
    /\ ConstructedAtMostOnce(getmdlModule.method_arena)
    /\ CacheKept("loaded_types")
    /\ CacheKept("loaded_methods")

LoadTypeRawByIndex ==
    raw_loaded.op = "load_type_raw" =>
        IF InTable("defined_types", raw_loaded.index)
        THEN ReturnedTheCached("loaded_types")
        ELSE FailedOutOfBounds(raw_loaded.index)

\* C30: load_type_raw and load_method_raw construct the object of an index
\* inside the definition table at most once and return that same object on
\* every call; for an index outside the table they return IndexOutOfBounds
\* carrying that index and add no cache entry.
C30_ByIndexCaches ==
    /\ CachesKeepTheirObjects
    /\ LoadTypeRawByIndex
    /\ raw_loaded.op = "load_method_raw" =>
        IF InTable("defined_methods", raw_loaded.index)
        THEN ReturnedTheCached("loaded_methods")
        ELSE FailedOutOfBounds(raw_loaded.index)

\* C30, amended: as above, except that load_method_raw with the index of a
\* method whose owner index is outside the type table returns
\* IndexOutOfBounds carrying the owner index and adds no entry to either
\* cache; a method that is loaded refers to the cached object of its owner.
C30_ByIndexCachesOfOwnedMethods ==
    /\ CachesKeepTheirObjects
    /\ LoadTypeRawByIndex
    /\ raw_loaded.op = "load_method_raw" =>
        IF InTable("defined_methods", raw_loaded.index)
        THEN IF InTable("defined_types", OwnerOf(raw_loaded.index))
             THEN /\ ReturnedTheCached("loaded_methods")
                  /\ OwnerOf(raw_loaded.index) \in DOMAIN getmdlModule.loaded_types
                  /\ getmdlModule.method_arena[raw_loaded.result.value].owner
                        = getmdlModule.loaded_types[OwnerOf(raw_loaded.index)]
             ELSE FailedOutOfBounds(OwnerOf(raw_loaded.index))
        ELSE FailedOutOfBounds(raw_loaded.index)

\* A module with a type and a method loaded, where load_method_raw was then
\* called with the index of a method whose owner is outside the type table.
C30_Witness ==
    /\ raw_loaded.op = "load_method_raw"
    /\ InTable("defined_methods", raw_loaded.index)
    /\ ~InTable("defined_types", OwnerOf(raw_loaded.index))
    /\ OwnerOf(raw_loaded.index) # raw_loaded.index
    /\ ~raw_loaded.result.ok
    /\ DOMAIN getmdlModule.loaded_types # {}
    /\ DOMAIN getmdlModule.loaded_methods # {}

====
